---- MODULE Spec2Model ----
(***************************************************************************)
(* A model of the Goldfish simulator (src/goldfish/src): the block-vote    *)
(* tree, message validation, the validator's four-phase step, the sleepy   *)
(* wrapper, the inboxes and the round loop of main.                        *)
(*                                                                         *)
(* Conventions.                                                            *)
(*  - A HashMap keyed by digest is a TLA+ function whose domain is the set *)
(*    of keys; a HashSet is a set; a Vec / VecDeque is a sequence.         *)
(*  - A digest is the tuple of the hashed fields behind the domain tag     *)
(*    (blake3 is taken to be collision free), so equal digests mean equal  *)
(*    hashed content and digests of different kinds never coincide.        *)
(*  - A failed assert! / unwrap() is the verdict "Panic", which ends the   *)
(*    run (variable panic).                                                *)
(*  - The order in which concurrently running validator threads append to  *)
(*    an inbox, and the iteration order of a HashSet, are nondeterministic *)
(*    choices.                                                             *)
(***************************************************************************)
EXTENDS Integers, Sequences, FiniteSets, Bags, TLC

VARIABLES
    cfg,         \* the run's parameters (CLI arguments, VRF table, schedules)
    r,           \* the round of the main loop
    pc,          \* position of the main loop inside round r
    stepped,     \* honest validators whose step of round r has returned
    inboxes,     \* inbox index -> SimulationInbox
    validators,  \* inbox index -> DaSimulationValidator
    panic,       \* "none", or how the run broke: "panic" (abort) or "hang"
    offered,     \* history: inbox index -> {<<digest, round>>} of the messages
                 \* passed to make_available
    collected,   \* history: inbox index -> {<<digest, round>>} of the messages
                 \* returned by collect_inbox
    threads,     \* thread -> its position inside a call on inbox 0
    locks,       \* mutex of inbox 0 -> the thread that holds it, or NoThread
    appended,    \* history: digest -> number of pushes of a message of that
                 \* digest on msgs_inflight of inbox 0 by the threads
    lottery      \* a VrfLottery built from a probability, and the last call
                 \* of is_winning on it

vars == <<cfg, r, pc, stepped, inboxes, validators, panic, offered, collected,
          threads, locks, appended, lottery>>

-----------------------------------------------------------------------------
(* Bounds of the model *)

\* the largest t_horizon explored (slots simulated after the bootstrap slot)
MaxHorizon == 2

\* the VRF output y, a u64 in the code, ranges over 0..YMax
YMax == 3

\* the largest number n of validators of the general specification
MaxN == 2

\* the length (in rounds) of the sleep of a schedule of the general specification
MaxSleep == 2

-----------------------------------------------------------------------------
(* Generic helpers *)

Put(f, k, v) == (k :> v) @@ f

Restrict(f, S) == [k \in S |-> f[k]]

Range(s) == {s[i] : i \in 1..Len(s)}

EmptyMap == [k \in {} |-> 0]

RECURSIVE SetToSeq(_)
SetToSeq(S) ==
    IF S = {} THEN <<>>
    ELSE LET x == CHOOSE y \in S : TRUE IN <<x>> \o SetToSeq(S \ {x})

\* every arrangement of the set S as a sequence
RECURSIVE Perms(_)
Perms(S) ==
    IF S = {} THEN {<<>>}
    ELSE UNION {{<<x>> \o p : p \in Perms(S \ {x})} : x \in S}

\* ceil(a / b) for a >= 0, b > 0
CeilDiv(a, b) == (a + b - 1) \div b

-----------------------------------------------------------------------------
(* Crypto abstraction, hash, lottery *)

\* sig.rs: MilagroBlsScheme::verify delegates to a function that returns true
SigVerify(pk, m, sigma) == TRUE

\* Sig::default(): MilagroBlsSchemeSig(None)
NoSig == [signer |-> -1]

\* Sigs::sign(sk, m): a signature by the holder of sk
Sign(id) == [signer |-> id]

\* ghash::Ghash::default(): 32 zero bytes, the parent hash of genesis
ZeroHash == <<>>

\* vrf.rs MilagroBlsVrfScheme::eval: y is the leading u64 of the hash of the
\* proof (a signature on x); the proof records that hash
VrfEval(id, tag, slot) == <<cfg.vrf[<<tag, id, slot>>],
                            [signer |-> id, y |-> cfg.vrf[<<tag, id, slot>>]]>>

VrfVerify(pk, x, y, pf) == y = pf.y /\ SigVerify(pk, x, pf)

\* a u64 as four 16-bit limbs, the most significant first
U64Zero == <<0, 0, 0, 0>>

U64Max == <<65535, 65535, 65535, 65535>>

\* a <= b on u64
U64Leq(a, b) ==
    \/ a = b
    \/ \E i \in 1..4 : a[i] < b[i] /\ \A j \in 1..(i - 1) : a[j] = b[j]

\* the probabilities explored: k / 2^PBits for k in 0..2^PBits, kept as
\* <<k, PBits>>
PBits == 3

Probabilities == {<<k, PBits>> : k \in 0..(2 ^ PBits)}

\* 0xffffffffffffffffu64 as f64: 2^64 - 1 has more than 53 significant bits
\* and rounds to 2^64; an f64 is kept as <<m, e>> for m * 2^e
F64OfU64Max == <<1, 64>>

\* the product of an f64 and a probability: exact, the mantissa stays small
F64Mul(x, p) == <<x[1] * p[1], x[2] - p[2]>>

\* f64 as u64: truncation, saturating at u64::MAX; the values met here are
\* integers m * 2^e with e >= 48
F64AsU64(x) ==
    IF x[1] * (2 ^ (x[2] - 48)) > 65535 THEN U64Max
    ELSE <<x[1] * (2 ^ (x[2] - 48)), 0, 0, 0>>

\* main.rs probability_f64_to_u64
ProbabilityF64ToU64(p) ==
    IF p[1] * 1000000 > 999999 * (2 ^ p[2]) THEN U64Max
    ELSE IF p[1] * 1000000 < 2 ^ p[2] THEN U64Zero
    ELSE F64AsU64(F64Mul(F64OfU64Max, p))

\* VrfLottery::new(tag, thr)
VrfLotteryNew(tag, thr) == [tag |-> tag, thr |-> thr]

\* VrfLottery::is_winning on a lottery value L
VrfLotteryIsWinning(L, pk, ticket, rho) ==
    U64Leq(rho[1], L.thr) /\ VrfVerify(pk, <<L.tag, ticket>>, rho[1], rho[2])

\* no lottery of its own: the run uses the thresholds of cfg
NoLottery ==
    [p |-> <<0, 0>>, lot |-> VrfLotteryNew("none", U64Zero),
     rho |-> <<U64Zero, [signer |-> -1, y |-> U64Zero]>>,
     called |-> FALSE, won |-> FALSE]

\* lottery.rs VrfLottery
LotteryOpen(tag, id, slot) == VrfEval(id, tag, slot)

LotteryIsWinning(tag, pk, slot, rho) ==
    rho[1] <= cfg.thr[tag] /\ VrfVerify(pk, <<tag, slot>>, rho[1], rho[2])

LotteryPrio(rho) == rho[1]

\* success_probability() = thr / u64::MAX, kept as numerator and denominator
SuccessProbabilityNum(tag) == cfg.thr[tag]
SuccessProbabilityDen == YMax

\* the default Opening (0, Sig::default())
DefaultRho == <<0, [signer |-> -1, y |-> 0]>>

-----------------------------------------------------------------------------
(* Blocks, votes, proposals, messages *)

\* Block::default(): the genesis block
Genesis ==
    [ticket |-> <<0, 0>>, rho |-> DefaultRho, h |-> ZeroHash,
     payload |-> <<>>, sigma |-> NoSig]

BlockDigest(b) == <<"block", b.ticket, b.rho, b.h, b.payload, b.sigma>>

GenesisHash == BlockDigest(Genesis)

\* Block::create: payload is random data with the graffiti "t=<t> id=<id>"
BlockCreate(id, slot, rho, h) ==
    [ticket |-> <<id, slot>>, rho |-> rho, h |-> h,
     payload |-> <<"t", slot, "id", id>>, sigma |-> Sign(id)]

VoteDigest(v) == <<"vote", v.ticket, v.rho, v.h, v.sigma>>

VoteCreate(id, slot, rho, h) ==
    [ticket |-> <<id, slot>>, rho |-> rho, h |-> h, sigma |-> Sign(id)]

ProposalDigest(p) ==
    <<"proposal", p.tips, p.votes, BlockDigest(p.b), p.sigma>>

MsgBlock(b) == [kind |-> "Block", x |-> b]
MsgVote(v) == [kind |-> "Vote", x |-> v]
MsgProposal(p) == [kind |-> "Proposal", x |-> p]

MsgDigest(m) ==
    CASE m.kind = "Block" -> <<"message", "piece", BlockDigest(m.x)>>
      [] m.kind = "Vote" -> <<"message", "piece", VoteDigest(m.x)>>
      [] OTHER -> <<"message", ProposalDigest(m.x)>>

MsgSlot(m) ==
    IF m.kind = "Proposal" THEN m.x.b.ticket[2] ELSE m.x.ticket[2]

\* the sort key of limbo: Block < Vote < Proposal, then slot
KindOrder(m) ==
    CASE m.kind = "Block" -> 0 [] m.kind = "Vote" -> 1 [] OTHER -> 2

-----------------------------------------------------------------------------
(* Validation caches (goldfish_type.rs) *)

\* A cache is a read-through pair: rw shadows ro, insert writes rw when the
\* cache is writable.  HashMap: ro empty.  UnionValidationCache: ro is the
\* authoritative map, rw the scratch map.  RoValidationCache: not writable.
HashMapCache(m) == [ro |-> EmptyMap, rw |-> m, writable |-> TRUE]

UnionValidationCache(ro, rw) == [ro |-> ro, rw |-> rw, writable |-> TRUE]

RoValidationCache(c) == [c EXCEPT !.writable = FALSE]

CacheGet(c, h) ==
    IF h \in DOMAIN c.rw THEN c.rw[h]
    ELSE IF h \in DOMAIN c.ro THEN c.ro[h] ELSE "None"

CacheInsert(c, h, res) ==
    IF c.writable THEN [c EXCEPT !.rw = Put(c.rw, h, res)] ELSE c

-----------------------------------------------------------------------------
(* BvSet views (goldfish_blockvote.rs) *)

\* impl BvSet for BvTree
TreeView(T) == [blocks |-> T.blocks, votes |-> T.votes]

\* impl BvSet for BufferAugmentedBvTree: the tree first, then the buffers
BufferAugmentedBvTree(T, dangling_blocks, dangling_votes) ==
    [blocks |-> T.blocks @@ dangling_blocks, votes |-> T.votes @@ dangling_votes]

PkiIds == 0 .. (cfg.n - 1)

-----------------------------------------------------------------------------
(* is_valid of Block, Vote, Proposal, Message.  Each returns the verdict   *)
(* and the cache as the call leaves it.                                    *)

Verdict(res, c) == [res |-> res, cache |-> c]

RECURSIVE BlockIsValid(_, _, _)

\* mutant of BlockIsValid: the slot of the block is not compared with the
\* slot of its parent
BlockIsValidAnySlot(b, c, view) ==
    LET d == BlockDigest(b) IN
    IF CacheGet(c, d) # "None" THEN Verdict(CacheGet(c, d), c)
    ELSE IF b = Genesis THEN Verdict("Valid", CacheInsert(c, d, "Valid"))
    ELSE IF b.h \notin DOMAIN view.blocks THEN Verdict("Unknown", c)
    ELSE
      LET WithParent(pv) ==
            IF pv.res # "Valid" \/ b.ticket[1] \notin PkiIds
            THEN Verdict("Panic", pv.cache)
            ELSE
              LET Insert(res) == Verdict(res, CacheInsert(pv.cache, d, res)) IN
              Insert(IF /\ LotteryIsWinning("block", b.ticket[1], b.ticket[2], b.rho)
                        /\ SigVerify(b.ticket[1], b, b.sigma)
                     THEN "Valid" ELSE "Invalid")
      IN  WithParent(BlockIsValid(view.blocks[b.h], c, view))

\* mutant of BlockIsValid: the verdict Unknown of a block whose parent is
\* missing is cached
BlockIsValidCachingUnknown(b, c, view) ==
    LET d == BlockDigest(b) IN
    IF CacheGet(c, d) # "None" THEN Verdict(CacheGet(c, d), c)
    ELSE IF b = Genesis THEN Verdict("Valid", CacheInsert(c, d, "Valid"))
    ELSE IF b.h \notin DOMAIN view.blocks
    THEN Verdict("Unknown", CacheInsert(c, d, "Unknown"))
    ELSE
      LET WithParent(b_parent, pv) ==
            IF pv.res # "Valid" \/ b.ticket[1] \notin PkiIds
            THEN Verdict("Panic", pv.cache)
            ELSE
              LET Insert(res) == Verdict(res, CacheInsert(pv.cache, d, res)) IN
              Insert(IF /\ LotteryIsWinning("block", b.ticket[1], b.ticket[2], b.rho)
                        /\ SigVerify(b.ticket[1], b, b.sigma)
                        /\ pv.res = "Valid"
                        /\ b.ticket[2] > b_parent.ticket[2]
                     THEN "Valid" ELSE "Invalid")
      IN  WithParent(view.blocks[b.h], BlockIsValid(view.blocks[b.h], c, view))

BlockIsValid(b, c, view) ==
    LET d == BlockDigest(b) IN
    IF CacheGet(c, d) # "None" THEN Verdict(CacheGet(c, d), c)
    ELSE IF b = Genesis THEN Verdict("Valid", CacheInsert(c, d, "Valid"))
    ELSE IF b.h \notin DOMAIN view.blocks THEN Verdict("Unknown", c)
    ELSE
      \* pv is the verdict of the first b_parent.is_valid; the second one, in
      \* the conjunction, repeats it on the cache the first left and returns
      \* the same verdict
      LET WithParent(b_parent, pv) ==
            IF pv.res # "Valid" \/ b.ticket[1] \notin PkiIds
            THEN Verdict("Panic", pv.cache)
            ELSE
              LET Insert(res) == Verdict(res, CacheInsert(pv.cache, d, res)) IN
              Insert(IF /\ LotteryIsWinning("block", b.ticket[1], b.ticket[2], b.rho)
                        /\ SigVerify(b.ticket[1], b, b.sigma)
                        /\ pv.res = "Valid"
                        /\ b.ticket[2] > b_parent.ticket[2]
                     THEN "Valid" ELSE "Invalid")
      IN  WithParent(view.blocks[b.h], BlockIsValid(view.blocks[b.h], c, view))

\* mutant of VoteIsValid: the slot of the vote is not compared with the slot
\* of its target
VoteIsValidAnySlot(v, c, view) ==
    LET d == VoteDigest(v) IN
    IF CacheGet(c, d) # "None" THEN Verdict(CacheGet(c, d), c)
    ELSE IF v.h \notin DOMAIN view.blocks THEN Verdict("Unknown", c)
    ELSE
      LET WithTarget(tv) ==
            IF tv.res # "Valid" \/ v.ticket[1] \notin PkiIds
            THEN Verdict("Panic", tv.cache)
            ELSE
              LET Insert(res) == Verdict(res, CacheInsert(tv.cache, d, res)) IN
              Insert(IF /\ LotteryIsWinning("vote", v.ticket[1], v.ticket[2], v.rho)
                        /\ SigVerify(v.ticket[1], v, v.sigma)
                     THEN "Valid" ELSE "Invalid")
      IN  WithTarget(BlockIsValid(view.blocks[v.h], c, view))

\* mutant of VoteIsValid: a vote is valid only while its target has no child
\* in the view
VoteIsValidTipOnly(v, c, view) ==
    LET d == VoteDigest(v) IN
    IF CacheGet(c, d) # "None" THEN Verdict(CacheGet(c, d), c)
    ELSE IF v.h \notin DOMAIN view.blocks THEN Verdict("Unknown", c)
    ELSE
      LET WithTarget(b_target, tv) ==
            IF tv.res # "Valid" \/ v.ticket[1] \notin PkiIds
            THEN Verdict("Panic", tv.cache)
            ELSE
              LET Insert(res) == Verdict(res, CacheInsert(tv.cache, d, res)) IN
              Insert(IF /\ LotteryIsWinning("vote", v.ticket[1], v.ticket[2], v.rho)
                        /\ SigVerify(v.ticket[1], v, v.sigma)
                        /\ v.ticket[2] >= b_target.ticket[2]
                        /\ \A k \in DOMAIN view.blocks : view.blocks[k].h # v.h
                     THEN "Valid" ELSE "Invalid")
      IN  WithTarget(view.blocks[v.h], BlockIsValid(view.blocks[v.h], c, view))

VoteIsValid(v, c, view) ==
    LET d == VoteDigest(v) IN
    IF CacheGet(c, d) # "None" THEN Verdict(CacheGet(c, d), c)
    ELSE IF v.h \notin DOMAIN view.blocks THEN Verdict("Unknown", c)
    ELSE
      \* tv is the verdict of the first b_target.is_valid, which the second
      \* one, in the conjunction, repeats
      LET WithTarget(b_target, tv) ==
            IF tv.res # "Valid" \/ v.ticket[1] \notin PkiIds
            THEN Verdict("Panic", tv.cache)
            ELSE
              LET Insert(res) == Verdict(res, CacheInsert(tv.cache, d, res)) IN
              Insert(IF /\ LotteryIsWinning("vote", v.ticket[1], v.ticket[2], v.rho)
                        /\ SigVerify(v.ticket[1], v, v.sigma)
                        /\ tv.res = "Valid"
                        /\ v.ticket[2] >= b_target.ticket[2]
                     THEN "Valid" ELSE "Invalid")
      IN  WithTarget(view.blocks[v.h], BlockIsValid(view.blocks[v.h], c, view))

\* the loop over p.votes, in the iteration order vs, from position i
RECURSIVE ProposalVotesValid(_, _, _, _, _)

\* mutant of ProposalVotesValid: the slot of a vote is not compared with the
\* slot of the proposal
ProposalVotesValidAnySlot(p, c, view, vs, i) ==
    LET d == ProposalDigest(p) IN
    IF i > Len(vs) THEN Verdict("Valid", CacheInsert(c, d, "Valid"))
    ELSE IF vs[i] \notin DOMAIN view.votes THEN Verdict("Unknown", c)
    ELSE
      LET WithVote(vv) ==
            IF vv.res = "Panic" \/ vv.res = "Unknown" THEN vv
            ELSE IF vv.res # "Valid"
            THEN Verdict(vv.res, CacheInsert(vv.cache, d, vv.res))
            ELSE ProposalVotesValid(p, vv.cache, view, vs, i + 1)
      IN  WithVote(VoteIsValid(view.votes[vs[i]], c, view))

ProposalVotesValid(p, c, view, vs, i) ==
    LET d == ProposalDigest(p) IN
    IF i > Len(vs) THEN Verdict("Valid", CacheInsert(c, d, "Valid"))
    ELSE IF vs[i] \notin DOMAIN view.votes THEN Verdict("Unknown", c)
    ELSE
      LET WithVote(v, vv) ==
            IF vv.res = "Panic" \/ vv.res = "Unknown" THEN vv
            ELSE IF vv.res # "Valid"
            THEN Verdict(vv.res, CacheInsert(vv.cache, d, vv.res))
            ELSE IF p.b.ticket[2] = 0 \/ v.ticket[2] # p.b.ticket[2] - 1
            THEN Verdict("Invalid", CacheInsert(vv.cache, d, "Invalid"))
            ELSE ProposalVotesValid(p, vv.cache, view, vs, i + 1)
      IN  WithVote(view.votes[vs[i]], VoteIsValid(view.votes[vs[i]], c, view))

\* the loop over p.tips, in the iteration order ts, from position i
RECURSIVE ProposalTipsValid(_, _, _, _, _, _)
ProposalTipsValid(p, c, view, ts, vs, i) ==
    LET d == ProposalDigest(p) IN
    IF i > Len(ts) THEN ProposalVotesValid(p, c, view, vs, 1)
    ELSE IF ts[i] \notin DOMAIN view.blocks THEN Verdict("Unknown", c)
    ELSE
      LET WithTip(b, bv) ==
            IF bv.res = "Panic" \/ bv.res = "Unknown" THEN bv
            ELSE IF bv.res # "Valid"
            THEN Verdict(bv.res, CacheInsert(bv.cache, d, bv.res))
            ELSE IF b.ticket[2] >= p.b.ticket[2]
            THEN Verdict("Invalid", CacheInsert(bv.cache, d, "Invalid"))
            ELSE ProposalTipsValid(p, bv.cache, view, ts, vs, i + 1)
      IN  WithTip(view.blocks[ts[i]], BlockIsValid(view.blocks[ts[i]], c, view))

\* Proposal::is_valid with the HashSets p.tips and p.votes iterated as ts, vs
ProposalIsValidIn(p, c, view, ts, vs) ==
    LET d == ProposalDigest(p) IN
    IF CacheGet(c, d) # "None" THEN Verdict(CacheGet(c, d), c)
    ELSE
      LET WithBlock(bv) ==
            IF bv.res = "Panic" \/ bv.res = "Unknown" THEN bv
            ELSE IF bv.res # "Valid"
            THEN Verdict(bv.res, CacheInsert(bv.cache, d, bv.res))
            ELSE IF p.b.ticket[1] \notin PkiIds THEN Verdict("Panic", bv.cache)
            ELSE IF ~SigVerify(p.b.ticket[1], p, p.sigma)
            THEN Verdict("Invalid", CacheInsert(bv.cache, d, "Invalid"))
            ELSE ProposalTipsValid(p, bv.cache, view, ts, vs, 1)
      IN  WithBlock(BlockIsValid(p.b, c, view))

\* The verdict depends on the iteration order only when two referenced items
\* fail in different ways; one order is taken here.
ProposalIsValid(p, c, view) ==
    ProposalIsValidIn(p, c, view, SetToSeq(p.tips), SetToSeq(p.votes))

MsgIsValid(m, c, view) ==
    CASE m.kind = "Block" -> BlockIsValid(m.x, c, view)
      [] m.kind = "Vote" -> VoteIsValid(m.x, c, view)
      [] OTHER -> ProposalIsValid(m.x, c, view)

-----------------------------------------------------------------------------
(* BvTree (goldfish_blockvote.rs) *)

BvTreeDefault ==
    [blocks |-> (GenesisHash :> Genesis),
     votes |-> EmptyMap,
     votecount |-> (GenesisHash :> {}),
     children |-> (GenesisHash :> {}),
     tips |-> {GenesisHash}]

\* children.get_mut(&b.h).unwrap() fails
InsertBlockPanics(T, b) == b.h \notin (DOMAIN T.children \cup {BlockDigest(b)})

\* mutant of InsertBlock: the parent stays in tips
InsertBlockKeepTip(T, b) ==
    LET d == BlockDigest(b)
        ch == Put(T.children, d, {})
    IN  [blocks |-> Put(T.blocks, d, b),
         votes |-> T.votes,
         votecount |-> Put(T.votecount, d, {}),
         children |-> IF b.h \in DOMAIN ch
                      THEN [ch EXCEPT ![b.h] = @ \cup {d}] ELSE ch,
         tips |-> T.tips \cup {d}]

InsertBlock(T, b) ==
    LET d == BlockDigest(b)
        ch == Put(T.children, d, {})
    IN  [blocks |-> Put(T.blocks, d, b),
         votes |-> T.votes,
         votecount |-> Put(T.votecount, d, {}),
         children |-> IF b.h \in DOMAIN ch
                      THEN [ch EXCEPT ![b.h] = @ \cup {d}] ELSE ch,
         tips |-> (T.tips \ {b.h}) \cup {d}]

\* the hashes pushed on try_to_merge while walking back from tip h
RECURSIVE TipAncestry(_, _)
TipAncestry(view, h) ==
    IF h = GenesisHash THEN {}
    ELSE IF h \notin DOMAIN view.blocks THEN {h}
    ELSE {h} \cup TipAncestry(view, view.blocks[h].h)

MergeResult(T, c, bb, bv, pan, hang) ==
    [tree |-> T, cache |-> c, buffer_blocks |-> bb, buffer_votes |-> bv,
     panic |-> pan, hang |-> hang]

\* mutant of MergeDrain: one block that is ready is inserted and the loop
\* ends, the rest of the queue stays in the buffer
MergeDrainOnce(T, c, bb, bv, queue) ==
    LET ready == {k \in queue \cap DOMAIN bb :
                    /\ k \notin DOMAIN T.blocks
                    /\ BlockIsValid(bb[k], c, TreeView(T)).res = "Valid"
                    /\ ~InsertBlockPanics(T, bb[k])}
        Pop(k) == MergeResult(InsertBlock(T, bb[k]), c,
                              Restrict(bb, DOMAIN bb \ {k}), bv, FALSE, FALSE)
    IN  IF ready = {} THEN MergeResult(T, c, bb, bv, FALSE, FALSE)
        ELSE Pop(CHOOSE k \in ready : TRUE)

\* The while loop over try_to_merge.  The queue is cycled until it is empty,
\* so every entry is popped; the tree it leaves does not depend on the order.
\* mutant of MergeDrain: the blocks tried are taken out of buffer_blocks and
\* not inserted into the tree
MergeDrainDiscards(T, c, bb, bv, queue) ==
    MergeResult(T, c, Restrict(bb, DOMAIN bb \ queue), bv, FALSE, FALSE)

RECURSIVE MergeDrain(_, _, _, _, _)
\* mutant of MergeDrain: a Valid block leaves the queue and buffer_blocks
\* but insert_block is not called
MergeDrainNoInsert(T, c, bb, bv, queue) ==
    IF queue = {} THEN MergeResult(T, c, bb, bv, FALSE, FALSE)
    ELSE
      LET inTree == queue \cap DOMAIN T.blocks IN
      IF inTree # {}
      THEN MergeDrain(T, c, Restrict(bb, DOMAIN bb \ inTree), bv, queue \ inTree)
      ELSE IF \E k \in queue : k \notin DOMAIN bb
      THEN MergeResult(T, c, bb, bv, TRUE, FALSE)
      ELSE
        LET WithVerdicts(res) ==
              IF \E k \in queue : res[k].res \in {"Invalid", "Panic"}
              THEN MergeResult(T, c, bb, bv, TRUE, FALSE)
              ELSE IF \A k \in queue : res[k].res # "Valid"
              THEN MergeResult(T, c, bb, bv, FALSE, TRUE)
              ELSE
                LET Pop(k) ==
                      MergeDrain(T, res[k].cache,
                                 Restrict(bb, DOMAIN bb \ {k}), bv, queue \ {k})
                IN  Pop(CHOOSE k \in queue : res[k].res = "Valid")
        IN  WithVerdicts([k \in queue |-> BlockIsValid(bb[k], c, TreeView(T))])

MergeDrain(T, c, bb, bv, queue) ==
    IF queue = {} THEN MergeResult(T, c, bb, bv, FALSE, FALSE)
    ELSE
      LET inTree == queue \cap DOMAIN T.blocks IN
      IF inTree # {}
      THEN MergeDrain(T, c, Restrict(bb, DOMAIN bb \ inTree), bv, queue \ inTree)
      ELSE IF \E k \in queue : k \notin DOMAIN bb
      THEN MergeResult(T, c, bb, bv, TRUE, FALSE)
      ELSE
        \* res[k] is the verdict of the buffered block k on the tree T
        LET WithVerdicts(res) ==
              IF \E k \in queue : res[k].res \in {"Invalid", "Panic"}
              THEN MergeResult(T, c, bb, bv, TRUE, FALSE)
              ELSE IF \A k \in queue : res[k].res # "Valid"
              THEN MergeResult(T, c, bb, bv, FALSE, TRUE)
              ELSE
                LET Pop(k) ==
                      IF InsertBlockPanics(T, bb[k])
                      THEN MergeResult(T, res[k].cache, bb, bv, TRUE, FALSE)
                      ELSE MergeDrain(InsertBlock(T, bb[k]), res[k].cache,
                                      Restrict(bb, DOMAIN bb \ {k}), bv, queue \ {k})
                IN  Pop(CHOOSE k \in queue : res[k].res = "Valid")
        IN  WithVerdicts([k \in queue |-> BlockIsValid(bb[k], c, TreeView(T))])

\* votecount: the ticket is added from the target up to genesis
VoteCountPanics(T, h) ==
    \E a \in TipAncestry(TreeView(T), h) \cup {GenesisHash} :
        a \notin DOMAIN T.votecount \/ a \notin DOMAIN T.blocks

\* mutant of AddVoteCount: the ticket is counted for the target only
AddVoteCountTarget(T, h, ticket) ==
    [T EXCEPT !.votecount =
        [k \in DOMAIN @ |-> IF k = h THEN @[k] \cup {ticket} ELSE @[k]]]

AddVoteCount(T, h, ticket) ==
    LET chain == TipAncestry(TreeView(T), h) \cup {GenesisHash} IN
    [T EXCEPT !.votecount =
        [k \in DOMAIN @ |-> IF k \in chain THEN @[k] \cup {ticket} ELSE @[k]]]

\* the loop over the drained votes vs (digests of buffered votes)
\* mutant of MergeVotes: the votes stay where they are
MergeVotesSkipped(T, c, bb, bv, vs) == MergeResult(T, c, bb, bv, FALSE, FALSE)

RECURSIVE MergeVotes(_, _, _, _, _)
\* mutant of MergeVotes: the merged votes stay in buffer_votes
MergeVotesKeepsBuffer(T, c, bb, bv, vs) ==
    IF vs = {} THEN MergeResult(T, c, bb, bv, FALSE, FALSE)
    ELSE
      LET WithVote(k, v, vv) ==
            IF vv.res # "Valid" \/ VoteCountPanics(T, v.h)
            THEN MergeResult(T, vv.cache, bb, bv, TRUE, FALSE)
            ELSE MergeVotes(
                   AddVoteCount([T EXCEPT !.votes = Put(@, VoteDigest(v), v)],
                                v.h, v.ticket),
                   vv.cache, bb, bv, vs \ {k})
          Pop(k) == WithVote(k, bv[k], VoteIsValid(bv[k], c, TreeView(T)))
      IN  Pop(CHOOSE x \in vs : TRUE)

MergeVotes(T, c, bb, bv, vs) ==
    IF vs = {} THEN MergeResult(T, c, bb, bv, FALSE, FALSE)
    ELSE
      LET WithVote(k, v, vv, rest) ==
            IF vv.res # "Valid" \/ VoteCountPanics(T, v.h)
            THEN MergeResult(T, vv.cache, bb, rest, TRUE, FALSE)
            ELSE MergeVotes(
                   AddVoteCount([T EXCEPT !.votes = Put(@, VoteDigest(v), v)],
                                v.h, v.ticket),
                   vv.cache, bb, rest, vs \ {k})
          Pop(k) == WithVote(k, bv[k], VoteIsValid(bv[k], c, TreeView(T)),
                             Restrict(bv, DOMAIN bv \ {k}))
      IN  Pop(CHOOSE x \in vs : TRUE)

\* Option<&Proposal>: None is <<>>, Some(p) is <<p>>
NoProposal == <<>>

SomeProposal(p) == <<p>>

\* BvTree::merge
Merge(T, c, bb, bv, proposal) ==
    LET \* the proposal's block on the drained tree, then the votes
        WithBlock(d, b, pb) ==
          IF pb.res # "Valid" \/ InsertBlockPanics(d.tree, b)
          THEN MergeResult(d.tree, pb.cache, d.buffer_blocks, bv, TRUE, FALSE)
          ELSE MergeResult(InsertBlock(d.tree, b), pb.cache, d.buffer_blocks,
                           bv, FALSE, FALSE)
        Votes(d) ==
          IF d.panic \/ d.hang THEN d
          ELSE MergeVotes(d.tree, d.cache, d.buffer_blocks, bv,
                          IF proposal = NoProposal THEN DOMAIN bv
                          ELSE DOMAIN bv \cap proposal[1].votes)
        Drained(d) ==
          Votes(IF d.panic \/ d.hang \/ proposal = NoProposal THEN d
                ELSE WithBlock(d, proposal[1].b,
                       BlockIsValid(proposal[1].b, d.cache, TreeView(d.tree))))
        Queued(view, queue) ==
          IF \E k \in queue : k \notin DOMAIN view.blocks
          THEN MergeResult(T, c, bb, bv, TRUE, FALSE)
          ELSE Drained(MergeDrain(T, c, bb, bv, queue))
        Viewed(view) ==
          Queued(view, IF proposal = NoProposal THEN DOMAIN bb
                       ELSE UNION {TipAncestry(view, h) : h \in proposal[1].tips})
    IN  Viewed(BufferAugmentedBvTree(T, bb, bv))

\* an assert! of expire_votes_before fails: a vote more than one slot ahead
ExpireVotesPanics(T, t) ==
    \/ \E k \in DOMAIN T.votes : T.votes[k].ticket[2] >= t /\ T.votes[k].ticket[2] > t + 1
    \/ \E k \in DOMAIN T.votecount : \E tk \in T.votecount[k] : tk[2] >= t /\ tk[2] > t + 1

\* mutant of ExpireVotesBefore: the votecount sets are left as they are
ExpireVotesMapOnly(T, t) ==
    [T EXCEPT !.votes = Restrict(@, {k \in DOMAIN @ : @[k].ticket[2] >= t})]

\* mutant of ExpireVotesBefore: no vote expires
ExpireVotesKeepsAll(T, t) == T

ExpireVotesBefore(T, t) ==
    [T EXCEPT
       !.votes = Restrict(@, {k \in DOMAIN @ : @[k].ticket[2] >= t}),
       !.votecount = [k \in DOMAIN @ |-> {tk \in @[k] : tk[2] >= t}]]

\* the number of slot-t tickets in votecount[c]
SlotCount(T, c, t) == Cardinality({tk \in T.votecount[c] : tk[2] = t})

\* ghost_eph from node h on: every hash the loop can return.  max_by_key
\* takes the last maximal child in the iteration order of the HashSet, so
\* any child of maximal count can be the one descended to.
RECURSIVE GhostFrom(_, _, _, _)
GhostFrom(T, t, min_votes, h) ==
    IF T.children[h] = {} THEN {h}
    ELSE
      LET cnt == CHOOSE m \in {SlotCount(T, c, t) : c \in T.children[h]} :
                    \A c \in T.children[h] : SlotCount(T, c, t) <= m
      IN  IF cnt < min_votes THEN {h}
          ELSE UNION {GhostFrom(T, t, min_votes, c) :
                        c \in {x \in T.children[h] : SlotCount(T, x, t) = cnt}}

GhostEph(T, t, min_votes) == GhostFrom(T, t, min_votes, GenesisHash)

RECURSIVE GetBlockHeight(_, _)
GetBlockHeight(T, h) ==
    IF h = GenesisHash \/ h \notin DOMAIN T.blocks THEN 0
    ELSE 1 + GetBlockHeight(T, T.blocks[h].h)

\* mutant of TruncateBackToSlot: no truncation
TruncateNot(T, h, t) == h

\* mutant of TruncateBackToSlot: one step back at most
TruncateToParent(T, h, t) ==
    IF h # GenesisHash /\ h \in DOMAIN T.blocks /\ T.blocks[h].ticket[2] > t
    THEN T.blocks[h].h
    ELSE h

RECURSIVE TruncateBackToSlot(_, _, _)
TruncateBackToSlot(T, h, t) ==
    IF h # GenesisHash /\ h \in DOMAIN T.blocks /\ T.blocks[h].ticket[2] > t
    THEN TruncateBackToSlot(T, T.blocks[h].h, t)
    ELSE h

-----------------------------------------------------------------------------
(* Validator (goldfish_validator.rs) *)

\* Validator::new
ValidatorNew(id) ==
    [id |-> id,
     bvtree |-> BvTreeDefault,
     limbo |-> <<>>,
     msgs_relayed |-> {},
     buffer_blocks |-> EmptyMap,
     buffer_votes |-> EmptyMap,
     buffer_proposals |-> <<>>,
     validation_cache |-> EmptyMap,
     tip_fast |-> GenesisHash,
     tip_slow |-> GenesisHash,
     tip_best |-> GenesisHash,
     stats |-> EmptyMap]

LedgerStats(T, h) ==
    [length |-> GetBlockHeight(T, h),
     age |-> IF h \in DOMAIN T.blocks THEN T.blocks[h].ticket[2] ELSE -1]

\* get_block(tip).unwrap() fails
UpdateStatsPanics(V) ==
    \E h \in {V.tip_best, V.tip_fast, V.tip_slow} : h \notin DOMAIN V.bvtree.blocks

UpdateStats(V, rr) ==
    [V EXCEPT !.stats = Put(@, rr,
        [ledger_best |-> LedgerStats(V.bvtree, V.tip_best),
         ledger_fast |-> LedgerStats(V.bvtree, V.tip_fast),
         ledger_slow |-> LedgerStats(V.bvtree, V.tip_slow)])]

\* sort_by_key of limbo: a stable sort on (kind, slot)
KeyLeq(a, b) ==
    \/ KindOrder(a) < KindOrder(b)
    \/ KindOrder(a) = KindOrder(b) /\ MsgSlot(a) <= MsgSlot(b)

RECURSIVE SortInsert(_, _)
SortInsert(sorted, m) ==
    IF sorted = <<>> THEN <<m>>
    ELSE IF KeyLeq(sorted[Len(sorted)], m) THEN Append(sorted, m)
    ELSE Append(SortInsert(SubSeq(sorted, 1, Len(sorted) - 1), m),
                sorted[Len(sorted)])

RECURSIVE SortLimbo(_)
SortLimbo(s) ==
    IF s = <<>> THEN <<>>
    ELSE SortInsert(SortLimbo(SubSeq(s, 1, Len(s) - 1)), s[Len(s)])

\* mutant of LimboIntake: the votes of the slots before t - 1 are kept
LimboIntakeKeepsStale(V, t, arrival) ==
    LET all == V.limbo \o arrival
        fresh(m) == MsgDigest(m) \notin V.msgs_relayed
    IN  SelectSeq(all, fresh)

\* limbo intake: extend by the collected inbox, drop relayed messages and
\* expired votes
LimboIntake(V, t, arrival) ==
    LET all == V.limbo \o arrival
        fresh(m) == MsgDigest(m) \notin V.msgs_relayed
        live(m) == ~(m.kind = "Vote" /\ t > 0 /\ MsgSlot(m) < t - 1)
    IN  SelectSeq(SelectSeq(all, fresh), live)

\* mutant of LimboOne: a message whose verdict is Unknown is dropped
LimboOneDropsUnknown(S, V, t) ==
    LET \* the valid message in its buffer, validated again into the cache
        Relayed(msg, rest, routed, again) ==
          [routed EXCEPT !.limbo = rest,
                         !.msgs_relayed = @ \cup {MsgDigest(msg)},
                         !.done = FALSE,
                         !.rw = again.cache.rw,
                         !.panic = again.res # "Valid"]
        Routed(msg, rest, union, routed) ==
          Relayed(msg, rest, routed,
                  MsgIsValid(msg, union,
                             BufferAugmentedBvTree(V.bvtree, routed.buffer_blocks,
                                                   routed.buffer_votes)))
        Checked(msg, rest, union, res) ==
          IF res = "Unknown" THEN [S EXCEPT !.limbo = rest]
          ELSE IF res = "Invalid" THEN [S EXCEPT !.limbo = rest]
          ELSE IF res = "Panic" THEN [S EXCEPT !.limbo = rest, !.panic = TRUE]
          ELSE Routed(msg, rest, union,
                 CASE msg.kind = "Proposal" ->
                        [S EXCEPT !.buffer_proposals = Append(@, msg.x)]
                   [] msg.kind = "Vote" ->
                        [S EXCEPT !.buffer_votes = Put(@, VoteDigest(msg.x), msg.x)]
                   [] OTHER ->
                        [S EXCEPT !.buffer_blocks = Put(@, BlockDigest(msg.x), msg.x)])
        Popped(msg, rest, union) ==
          IF MsgSlot(msg) > t THEN [S EXCEPT !.limbo = Append(rest, msg)]
          ELSE Checked(msg, rest, union,
                 MsgIsValid(msg, RoValidationCache(union),
                            BufferAugmentedBvTree(V.bvtree, S.buffer_blocks,
                                                  S.buffer_votes)).res)
    IN  Popped(Head(S.limbo), Tail(S.limbo),
               UnionValidationCache(V.validation_cache, S.rw))

\* mutant of LimboOne: a message whose verdict is Invalid is pushed back
LimboOneKeepsInvalid(S, V, t) ==
    LET \* the valid message in its buffer, validated again into the cache
        Relayed(msg, rest, routed, again) ==
          [routed EXCEPT !.limbo = rest,
                         !.msgs_relayed = @ \cup {MsgDigest(msg)},
                         !.done = FALSE,
                         !.rw = again.cache.rw,
                         !.panic = again.res # "Valid"]
        Routed(msg, rest, union, routed) ==
          Relayed(msg, rest, routed,
                  MsgIsValid(msg, union,
                             BufferAugmentedBvTree(V.bvtree, routed.buffer_blocks,
                                                   routed.buffer_votes)))
        Checked(msg, rest, union, res) ==
          IF res = "Unknown" THEN [S EXCEPT !.limbo = Append(rest, msg)]
          ELSE IF res = "Invalid" THEN [S EXCEPT !.limbo = Append(rest, msg)]
          ELSE IF res = "Panic" THEN [S EXCEPT !.limbo = rest, !.panic = TRUE]
          ELSE Routed(msg, rest, union,
                 CASE msg.kind = "Proposal" ->
                        [S EXCEPT !.buffer_proposals = Append(@, msg.x)]
                   [] msg.kind = "Vote" ->
                        [S EXCEPT !.buffer_votes = Put(@, VoteDigest(msg.x), msg.x)]
                   [] OTHER ->
                        [S EXCEPT !.buffer_blocks = Put(@, BlockDigest(msg.x), msg.x)])
        Popped(msg, rest, union) ==
          IF MsgSlot(msg) > t THEN [S EXCEPT !.limbo = Append(rest, msg)]
          ELSE Checked(msg, rest, union,
                 MsgIsValid(msg, RoValidationCache(union),
                            BufferAugmentedBvTree(V.bvtree, S.buffer_blocks,
                                                  S.buffer_votes)).res)
    IN  Popped(Head(S.limbo), Tail(S.limbo),
               UnionValidationCache(V.validation_cache, S.rw))

\* one iteration of "for _ in 0..self.limbo.len()"; S is the part of the
\* validator the loop works on, with the scratch cache rw and the flag done
LimboOne(S, V, t) ==
    LET \* the valid message in its buffer, validated again into the cache
        Relayed(msg, rest, routed, again) ==
          [routed EXCEPT !.limbo = rest,
                         !.msgs_relayed = @ \cup {MsgDigest(msg)},
                         !.done = FALSE,
                         !.rw = again.cache.rw,
                         !.panic = again.res # "Valid"]
        Routed(msg, rest, union, routed) ==
          Relayed(msg, rest, routed,
                  MsgIsValid(msg, union,
                             BufferAugmentedBvTree(V.bvtree, routed.buffer_blocks,
                                                   routed.buffer_votes)))
        Checked(msg, rest, union, res) ==
          IF res = "Unknown" THEN [S EXCEPT !.limbo = Append(rest, msg)]
          ELSE IF res = "Invalid" THEN [S EXCEPT !.limbo = rest]
          ELSE IF res = "Panic" THEN [S EXCEPT !.limbo = rest, !.panic = TRUE]
          ELSE Routed(msg, rest, union,
                 CASE msg.kind = "Proposal" ->
                        [S EXCEPT !.buffer_proposals = Append(@, msg.x)]
                   [] msg.kind = "Vote" ->
                        [S EXCEPT !.buffer_votes = Put(@, VoteDigest(msg.x), msg.x)]
                   [] OTHER ->
                        [S EXCEPT !.buffer_blocks = Put(@, BlockDigest(msg.x), msg.x)])
        Popped(msg, rest, union) ==
          IF MsgSlot(msg) > t THEN [S EXCEPT !.limbo = Append(rest, msg)]
          ELSE Checked(msg, rest, union,
                 MsgIsValid(msg, RoValidationCache(union),
                            BufferAugmentedBvTree(V.bvtree, S.buffer_blocks,
                                                  S.buffer_votes)).res)
    IN  Popped(Head(S.limbo), Tail(S.limbo),
               UnionValidationCache(V.validation_cache, S.rw))

RECURSIVE LimboPass(_, _, _, _)
LimboPass(S, V, t, k) ==
    IF k = 0 \/ S.panic THEN S ELSE LimboPass(LimboOne(S, V, t), V, t, k - 1)

\* "while !done"
RECURSIVE LimboLoop(_, _, _)
LimboLoop(S, V, t) ==
    LET Passed(after) ==
          IF after.panic \/ after.done THEN after ELSE LimboLoop(after, V, t)
        Sorted(sorted) == Passed(LimboPass(sorted, V, t, Len(sorted.limbo)))
    IN  Sorted([S EXCEPT !.done = TRUE, !.limbo = SortLimbo(S.limbo)])

\* mutant of LimboProcess: the scratch map is written into validation_cache
LimboProcessKeepsScratch(V, t, arrival) ==
    LET Looped(S) ==
          [v |-> [V EXCEPT !.limbo = S.limbo,
                           !.buffer_blocks = S.buffer_blocks,
                           !.buffer_votes = S.buffer_votes,
                           !.buffer_proposals = S.buffer_proposals,
                           !.msgs_relayed = S.msgs_relayed,
                           !.validation_cache = S.rw @@ @],
           panic |-> S.panic]
    IN  Looped(LimboLoop([limbo |-> LimboIntake(V, t, arrival),
                          buffer_blocks |-> V.buffer_blocks,
                          buffer_votes |-> V.buffer_votes,
                          buffer_proposals |-> V.buffer_proposals,
                          msgs_relayed |-> V.msgs_relayed,
                          rw |-> EmptyMap, done |-> TRUE, panic |-> FALSE],
                         V, t))

\* the validator after limbo intake and limbo processing
LimboProcess(V, t, arrival) ==
    LET Looped(S) ==
          [v |-> [V EXCEPT !.limbo = S.limbo,
                           !.buffer_blocks = S.buffer_blocks,
                           !.buffer_votes = S.buffer_votes,
                           !.buffer_proposals = S.buffer_proposals,
                           !.msgs_relayed = S.msgs_relayed],
           panic |-> S.panic]
    IN  Looped(LimboLoop([limbo |-> LimboIntake(V, t, arrival),
                          buffer_blocks |-> V.buffer_blocks,
                          buffer_votes |-> V.buffer_votes,
                          buffer_proposals |-> V.buffer_proposals,
                          msgs_relayed |-> V.msgs_relayed,
                          rw |-> EmptyMap, done |-> TRUE, panic |-> FALSE],
                         V, t))

\* what a part of step leaves: the validator, the messages it broadcast, and
\* whether it returned ("ok"), panicked or never returns ("hang")
Outcome(V, out, status) == [v |-> V, out |-> out, status |-> status]

MergeStatus(m) == IF m.panic THEN "panic" ELSE IF m.hang THEN "hang" ELSE "ok"

\* mutant of MinVotes: the quorum is taken over the honest validators only
MinVotesHonest ==
    CeilDiv((cfg.n - cfg.f) * (3 * cfg.eps[2] + 2 * cfg.eps[1])
               * SuccessProbabilityNum("vote"),
            4 * cfg.eps[2] * SuccessProbabilityDen)

\* ceil(n * (0.75 + 0.5 * eps) * p_v), eps = cfg.eps[1] / cfg.eps[2]
MinVotes ==
    CeilDiv(cfg.n * (3 * cfg.eps[2] + 2 * cfg.eps[1]) * SuccessProbabilityNum("vote"),
            4 * cfg.eps[2] * SuccessProbabilityDen)

\* r % 4 = 0: PROPOSE
PhasePropose(V, t) ==
    LET rho == LotteryOpen("block", V.id, t)
        Proposed(bvtree_new, p_new) ==
          IF ProposalIsValid(p_new,
                 RoValidationCache(HashMapCache(V.validation_cache)),
                 TreeView(bvtree_new)).res = "Valid"
          THEN Outcome(V, <<MsgProposal(p_new)>>, "ok")
          ELSE Outcome(V, <<>>, "panic")
        Expired(bvtree_new) ==
          { Proposed(bvtree_new,
                     [tips |-> bvtree_new.tips,
                      votes |-> DOMAIN bvtree_new.votes,
                      b |-> BlockCreate(V.id, t, rho, h_tip),
                      sigma |-> Sign(V.id)])
            : h_tip \in GhostEph(bvtree_new, t - 1, 0) }
        Merged(m) ==
          IF MergeStatus(m) # "ok" THEN {Outcome(V, <<>>, MergeStatus(m))}
          ELSE IF ExpireVotesPanics(m.tree, t - 1) THEN {Outcome(V, <<>>, "panic")}
          ELSE Expired(ExpireVotesBefore(m.tree, t - 1))
    IN
    IF ~LotteryIsWinning("block", V.id, t, rho) THEN {Outcome(V, <<>>, "ok")}
    ELSE Merged(Merge(V.bvtree, RoValidationCache(HashMapCache(V.validation_cache)),
                      V.buffer_blocks, V.buffer_votes, NoProposal))

\* min_by_key(|p| p.prio()) over the proposals of slot t: the first of the
\* proposals of minimum prio, in the order of buffer_proposals
MinPrioProposal(ps) ==
    LET i == CHOOSE i \in 1..Len(ps) :
                /\ \A j \in 1..Len(ps) :
                      LotteryPrio(ps[i].b.rho) <= LotteryPrio(ps[j].b.rho)
                /\ \A j \in 1..(i - 1) :
                      LotteryPrio(ps[j].b.rho) > LotteryPrio(ps[i].b.rho)
    IN  ps[i]

\* r % 4 = 1, first half: merge the selected proposal
PhaseVoteMerge(V, t) ==
    LET Merged(p, m) ==
          Outcome([V EXCEPT !.bvtree = m.tree,
                            !.validation_cache = m.cache.rw,
                            !.buffer_blocks = m.buffer_blocks,
                            !.buffer_votes = m.buffer_votes],
                  IF MergeStatus(m) = "ok" THEN <<MsgBlock(p.b)>> ELSE <<>>,
                  MergeStatus(m))
        Selected(p) ==
          Merged(p, Merge(V.bvtree, HashMapCache(V.validation_cache),
                          V.buffer_blocks, V.buffer_votes, SomeProposal(p)))
        Filtered(ps) ==
          IF ps = <<>> THEN Outcome(V, <<>>, "ok")
          ELSE Selected(MinPrioProposal(ps))
    IN  Filtered(SelectSeq(V.buffer_proposals, LAMBDA p : p.b.ticket[2] = t))

\* r % 4 = 1: VOTE
PhaseVote(V, t) ==
    LET rho == LotteryOpen("vote", V.id, t)
        Voted(mo, T, v_new, vv) ==
          IF vv.res = "Valid"
          THEN Outcome([mo.v EXCEPT !.bvtree = T, !.validation_cache = vv.cache.rw],
                       Append(mo.out, MsgVote(v_new)), "ok")
          ELSE Outcome([mo.v EXCEPT !.bvtree = T], mo.out, "panic")
        Created(mo, T, v_new) ==
          Voted(mo, T, v_new,
                VoteIsValid(v_new, HashMapCache(mo.v.validation_cache), TreeView(T)))
        Expired(mo, T) ==
          { Created(mo, T, VoteCreate(V.id, t, rho, h_tip))
            : h_tip \in GhostEph(T, t - 1, 0) }
        Merged(mo) ==
          IF mo.status # "ok" THEN {mo}
          ELSE IF ~LotteryIsWinning("vote", V.id, t, rho) THEN {mo}
          ELSE IF ExpireVotesPanics(mo.v.bvtree, t - 1)
          THEN {Outcome(mo.v, mo.out, "panic")}
          ELSE Expired(mo, ExpireVotesBefore(mo.v.bvtree, t - 1))
    IN  Merged(PhaseVoteMerge(V, t))

\* mutant of ConfirmMerge: the buffers are pruned but merge is not called
ConfirmMergeSkipped(V, t) ==
    LET bp == SelectSeq(V.buffer_proposals, LAMBDA p : p.b.ticket[2] >= t)
        bv == Restrict(V.buffer_votes,
                  {k \in DOMAIN V.buffer_votes : V.buffer_votes[k].ticket[2] >= t})
    IN  IF ExpireVotesPanics(V.bvtree, t) THEN Outcome(V, <<>>, "panic")
        ELSE Outcome([V EXCEPT !.buffer_proposals = bp,
                               !.buffer_votes = bv,
                               !.bvtree = ExpireVotesBefore(@, t)], <<>>, "ok")

\* the common start of FAST-CONFIRM and SLOW-CONFIRM: drop stale proposals and
\* votes, merge the buffers, expire the votes before t
ConfirmMerge(V, t) ==
    LET bp == SelectSeq(V.buffer_proposals, LAMBDA p : p.b.ticket[2] >= t)
        bv == Restrict(V.buffer_votes,
                  {k \in DOMAIN V.buffer_votes : V.buffer_votes[k].ticket[2] >= t})
        Stored(m, W) ==
          IF MergeStatus(m) # "ok" THEN Outcome(W, <<>>, MergeStatus(m))
          ELSE IF ExpireVotesPanics(m.tree, t) THEN Outcome(W, <<>>, "panic")
          ELSE Outcome([W EXCEPT !.bvtree = ExpireVotesBefore(m.tree, t)], <<>>, "ok")
        Merged(m) ==
          Stored(m, [V EXCEPT !.buffer_proposals = bp,
                              !.bvtree = m.tree,
                              !.validation_cache = m.cache.rw,
                              !.buffer_blocks = m.buffer_blocks,
                              !.buffer_votes = m.buffer_votes])
    IN  Merged(Merge(V.bvtree, HashMapCache(V.validation_cache),
                     V.buffer_blocks, bv, NoProposal))

\* mutant of AdvancesFast: the GHOST tip always replaces tip_fast
AdvancesFastAlways(T, h_tip, tip_fast) == TRUE

\* the test that guards the assignment of tip_fast
AdvancesFast(T, h_tip, tip_fast) ==
    GetBlockHeight(T, h_tip) > GetBlockHeight(T, tip_fast)

\* r % 4 = 2: FAST-CONFIRM
PhaseFastConfirm(V, t) ==
    LET Merged(mo) ==
          IF mo.status # "ok" THEN {mo}
          ELSE { IF AdvancesFast(mo.v.bvtree, h_tip, mo.v.tip_fast)
                 THEN Outcome([mo.v EXCEPT !.tip_fast = h_tip], <<>>, "ok")
                 ELSE mo
                 : h_tip \in GhostEph(mo.v.bvtree, t, MinVotes) }
    IN  Merged(ConfirmMerge(V, t))

\* r % 4 = 3: SLOW-CONFIRM
PhaseSlowConfirm(V, t) ==
    LET Merged(mo) ==
          IF mo.status # "ok" THEN {mo}
          ELSE { Outcome([mo.v EXCEPT !.tip_slow =
                             TruncateBackToSlot(mo.v.bvtree, h_tip, t - cfg.kappa)],
                         <<>>, "ok")
                 : h_tip \in GhostEph(mo.v.bvtree, t, 0) }
    IN  Merged(ConfirmMerge(V, t))

\* mutant of TipBest: the slow tip always wins
TipBestSlow(T, tip_fast, tip_slow) == tip_slow

\* tip reconciliation
TipBest(T, tip_fast, tip_slow) ==
    IF GetBlockHeight(T, tip_fast) > GetBlockHeight(T, tip_slow)
    THEN tip_fast ELSE tip_slow

\* mutant of Cleanup: the blocks of the slots before t are pruned
CleanupPruning(V, t) ==
    [V EXCEPT
       !.tip_best = TipBest(V.bvtree, V.tip_fast, V.tip_slow),
       !.bvtree.blocks = Restrict(@, {k \in DOMAIN @ :
                             k = GenesisHash \/ @[k].ticket[2] >= t}),
       !.buffer_proposals = SelectSeq(@, LAMBDA p : p.b.ticket[2] >= t),
       !.buffer_votes = Restrict(@, {k \in DOMAIN @ : @[k].ticket[2] >= t - 1}),
       !.buffer_blocks = Restrict(@, {k \in DOMAIN @ : @[k].ticket[2] >= t - 1}),
       !.limbo = SelectSeq(@, LAMBDA m : MsgSlot(m) >= t - cfg.kappa)]

\* mutant of Cleanup: buffer_proposals is not pruned
CleanupKeepsProposals(V, t) ==
    [V EXCEPT
       !.tip_best = TipBest(V.bvtree, V.tip_fast, V.tip_slow),
       !.buffer_votes = Restrict(@, {k \in DOMAIN @ : @[k].ticket[2] >= t - 1}),
       !.buffer_blocks = Restrict(@, {k \in DOMAIN @ : @[k].ticket[2] >= t - 1}),
       !.limbo = SelectSeq(@, LAMBDA m : MsgSlot(m) >= t - cfg.kappa)]

\* CLEANUP: tip_best, the retains of the buffers and of limbo
Cleanup(V, t) ==
    [V EXCEPT
       !.tip_best = TipBest(V.bvtree, V.tip_fast, V.tip_slow),
       !.buffer_proposals = SelectSeq(@, LAMBDA p : p.b.ticket[2] >= t),
       !.buffer_votes = Restrict(@, {k \in DOMAIN @ : @[k].ticket[2] >= t - 1}),
       !.buffer_blocks = Restrict(@, {k \in DOMAIN @ : @[k].ticket[2] >= t - 1}),
       !.limbo = SelectSeq(@, LAMBDA m : MsgSlot(m) >= t - cfg.kappa)]

\* Validator::step in round rr, the collected inbox being arrival
ValidatorStep(V, rr, arrival) ==
    LET t == rr \div 4
        Cleaned(o, W) ==
          IF UpdateStatsPanics(W) THEN Outcome(W, o.out, "panic")
          ELSE Outcome(UpdateStats(W, rr), o.out, "ok")
        Phased(phase) ==
          { IF o.status # "ok" THEN o ELSE Cleaned(o, Cleanup(o.v, t))
            : o \in phase }
        Processed(lp) ==
          Phased(IF lp.panic THEN {Outcome(lp.v, <<>>, "panic")}
                 ELSE CASE rr % 4 = 0 -> PhasePropose(lp.v, t)
                        [] rr % 4 = 1 -> PhaseVote(lp.v, t)
                        [] rr % 4 = 2 -> PhaseFastConfirm(lp.v, t)
                        [] OTHER -> PhaseSlowConfirm(lp.v, t))
    IN  Processed(LimboProcess(V, t, arrival))

-----------------------------------------------------------------------------
(* DaSimulationValidator: the sleepy wrapper *)

DaSimulationValidatorNew(V) ==
    [validator |-> V, sleep_status |-> "Awake", r_end_of_joining |-> 0,
     stats |-> EmptyMap]

\* what a wrapper step leaves: the wrapper, the messages broadcast, the status
\* and whether collect_inbox was called
DaOutcome(D, out, status, drained) ==
    [d |-> D, out |-> out, status |-> status, drained |-> drained]

\* mutant of DaIdle: a sleeping validator still drains its inbox
DaIdleDrains(D, rr, sleep_status) ==
    DaOutcome([D EXCEPT !.sleep_status = sleep_status,
                        !.validator = UpdateStats(@, rr),
                        !.stats = Put(@, rr, sleep_status)],
              <<>>, "ok", TRUE)

\* mutant of DaIdle: a validator that sleeps or dreams takes the protocol
\* step, on an empty inbox
DaIdleSteps(D, rr, sleep_status) ==
    LET Stepped(o) ==
          DaOutcome([D EXCEPT !.sleep_status = sleep_status,
                              !.validator = o.v,
                              !.stats = Put(@, rr, sleep_status)],
                    o.out, o.status, FALSE)
    IN  Stepped(CHOOSE o \in ValidatorStep(D.validator, rr, <<>>) : TRUE)

\* the branches that return early: update_stats only, then the DA stats
DaIdle(D, rr, sleep_status) ==
    IF UpdateStatsPanics(D.validator)
    THEN DaOutcome([D EXCEPT !.sleep_status = sleep_status], <<>>, "panic", FALSE)
    ELSE DaOutcome([D EXCEPT !.sleep_status = sleep_status,
                             !.validator = UpdateStats(@, rr),
                             !.stats = Put(@, rr, sleep_status)],
                   <<>>, "ok", FALSE)

\* mutant of EndOfJoining: the validator resumes in the round it wakes up
EndOfJoiningNow(rr) == rr

\* the round at which a validator that starts joining in round rr resumes
EndOfJoining(rr) == (rr \div 4) * 4 + 3

\* the status after the Asleep -> Dreamy and Dreamy -> Awake tests of a round
\* whose schedule is Awake
StatusAfterWaking(sleep_status, r_end, rr) ==
    IF sleep_status = "Dreamy" /\ rr = r_end THEN "Awake" ELSE sleep_status

\* every arrangement in which the messages of the bag B can be drained:
\* the messages of one class were pushed by threads that ran concurrently
RECURSIVE Arrivals(_)
Arrivals(B) ==
    IF BagToSet(B) = {} THEN {<<>>}
    ELSE
      LET ms == BagToSet(B)
          first == CHOOSE m \in ms : \A x \in ms : KeyLeq(m, x)
          class == {m \in ms : KeyLeq(m, first)}
          copies == UNION {{<<m, i>> : i \in 1..CopiesIn(m, B)} : m \in class}
          rest == [m \in ms \ class |-> B[m]]
      IN  { [i \in 1..Len(p) |-> p[i][1]] \o q :
              p \in Perms(copies), q \in Arrivals(rest) }

\* DaSimulationValidator::step in round rr; schedule is da_schedule[rr] and
\* msgs the content of the validator's inbox
DaSimulationValidatorStep(D, rr, schedule, msgs) ==
    IF schedule = "Asleep" THEN {DaIdle(D, rr, "Asleep")}
    ELSE
      LET joining == D.sleep_status = "Asleep"
          s1 == IF joining THEN "Dreamy" ELSE D.sleep_status
          r_end == IF joining THEN EndOfJoining(rr) ELSE D.r_end_of_joining
          s2 == StatusAfterWaking(s1, r_end, rr)
          D2 == [D EXCEPT !.sleep_status = s2, !.r_end_of_joining = r_end]
      IN
      IF s2 = "Dreamy" THEN {DaIdle(D2, rr, "Dreamy")}
      ELSE
        { IF o.status # "ok"
          THEN DaOutcome([D2 EXCEPT !.validator = o.v], o.out, o.status, TRUE)
          ELSE DaOutcome([D2 EXCEPT !.validator = o.v,
                                    !.stats = Put(@, rr, "Awake")],
                         o.out, "ok", TRUE)
          : o \in UNION {ValidatorStep(D.validator, rr, arrival) :
                           arrival \in Arrivals(msgs)} }

-----------------------------------------------------------------------------
(* network.rs: SimulationInbox *)

SimulationInboxNew ==
    [msgs |-> EmptyBag, msgs_inflight |-> EmptyBag, msgs_seen |-> {},
     stats |-> EmptyMap]

\* mutant of MakeAvailable: no in-flight staging, the message is readable at once
MakeAvailableAtOnce(I, m) ==
    IF MsgDigest(m) \in I.msgs_seen THEN I
    ELSE [I EXCEPT !.msgs = @ (+) SetToBag({m}),
                   !.msgs_seen = @ \cup {MsgDigest(m)}]

MakeAvailable(I, m) ==
    IF MsgDigest(m) \in I.msgs_seen THEN I
    ELSE [I EXCEPT !.msgs_inflight = @ (+) SetToBag({m}),
                   !.msgs_seen = @ \cup {MsgDigest(m)}]

CollectInbox(I) == [I EXCEPT !.msgs = EmptyBag]

KindCount(B, kind) ==
    BagCardinality([m \in {x \in BagToSet(B) : x.kind = kind} |-> B[m]])

\* the message counts of CommunicationStats (sizes are not modelled)
CommunicationStats(B) ==
    [all_count |-> BagCardinality(B),
     proposal_count |-> KindCount(B, "Proposal"),
     piece_block_count |-> KindCount(B, "Block"),
     piece_vote_count |-> KindCount(B, "Vote")]

DeliverMsgsInflight(I, rr) ==
    [I EXCEPT !.stats = Put(@, rr, CommunicationStats(I.msgs_inflight)),
              !.msgs = @ (+) I.msgs_inflight,
              !.msgs_inflight = EmptyBag]

\* Validator::broadcast of the messages of out, in order, to every inbox
RECURSIVE Broadcast(_, _)
Broadcast(inbs, out) ==
    IF out = <<>> THEN inbs
    ELSE Broadcast([i \in DOMAIN inbs |-> MakeAvailable(inbs[i], Head(out))],
                   Tail(out))

\* the threads that call into one inbox at the same time
MaxThreads == 3

InboxThreads == 1..MaxThreads

NoThread == 0

\* the four Arc<Mutex<..>> fields of SimulationInbox
LockNames == {"msgs", "msgs_inflight", "msgs_seen", "stats"}

InboxOps ==
    {"make_available", "adversary_peek", "collect_inbox",
     "deliver_msgs_inflight", "stats"}

\* mutant of LockOrder: adversary_peek takes msgs_inflight before msgs
LockOrderPeekInverted(op) ==
    CASE op = "make_available" -> <<"msgs_seen", "msgs_inflight">>
      [] op = "adversary_peek" -> <<"msgs_inflight", "msgs">>
      [] op = "collect_inbox" -> <<"msgs">>
      [] op = "deliver_msgs_inflight" -> <<"msgs", "msgs_inflight", "stats">>
      [] op = "stats" -> <<"stats">>

\* mutant of LockOrder: make_available reads and writes msgs_seen with no
\* lock on it
LockOrderSeenUnlocked(op) ==
    CASE op = "make_available" -> <<>>
      [] op = "adversary_peek" -> <<"msgs", "msgs_inflight">>
      [] op = "collect_inbox" -> <<"msgs">>
      [] op = "deliver_msgs_inflight" -> <<"msgs", "msgs_inflight", "stats">>
      [] op = "stats" -> <<"stats">>

\* the lock() calls of each method, in the order of its statements
LockOrder(op) ==
    CASE op = "make_available" -> <<"msgs_seen", "msgs_inflight">>
      [] op = "adversary_peek" -> <<"msgs", "msgs_inflight">>
      [] op = "collect_inbox" -> <<"msgs">>
      [] op = "deliver_msgs_inflight" -> <<"msgs", "msgs_inflight", "stats">>
      [] op = "stats" -> <<"stats">>

\* a thread outside every method of the inbox
IdleThread ==
    [op |-> "none", at |-> "idle", held |-> 0, msg |-> <<>>, fresh |-> FALSE,
     rr |-> 0]

-----------------------------------------------------------------------------
(* main.rs: parameters, setup and the round loop *)

\* CLI default of --confirm-fast-eps, 0.001, as numerator and denominator
EpsNum == 1
EpsDen == 1000

\* the rounds simulated: param_sim_horizon = 4..(4 + 4 * t_horizon)
FirstRound == 4
LastRound(t_horizon) == 4 + 4 * t_horizon - 1

\* VRF outputs, a hash in the code: y = (a * id + b * slot) mod (YMax + 1),
\* so that a = 0 makes the validators of a slot tie and a = 1 tells them apart
VrfTable(a, b, n, t_horizon) ==
    [k \in {"block", "vote"} \X (0..(n - 1)) \X (0..(t_horizon + 1)) |->
        (a * k[2] + b * k[3]) % (YMax + 1)]

VrfTables(n, t_horizon) ==
    {VrfTable(a, b, n, t_horizon) : a \in 0..1, b \in 0..1}

\* da_schedule: Awake in the bootstrap rounds 0..3, then Asleep exactly in
\* the rounds of the set asleep
DaSchedule(asleep, t_horizon) ==
    [rr \in 0..LastRound(t_horizon) |->
        IF rr \in asleep THEN "Asleep" ELSE "Awake"]

\* the honest validator at inbox index j has id f + j (the adversary
\* corrupts the first f validators)
HonestIndexes == 0..(cfg.n - cfg.f - 1)

AdversaryInbox == cfg.n - cfg.f

Params(n, f, kappa, t_horizon, thr, vrf, da_schedule) ==
    [n |-> n, f |-> f, kappa |-> kappa, t_horizon |-> t_horizon,
     eps |-> <<EpsNum, EpsDen>>,
     thr |-> [tag \in {"block", "vote"} |-> thr],
     vrf |-> vrf, da_schedule |-> da_schedule]

\* the state main builds before the first round
InitRun(params, lotteries) ==
    /\ lottery \in lotteries
    /\ cfg \in params
    /\ r = FirstRound
    /\ pc = "deliver"
    /\ stepped = {}
    /\ inboxes = [i \in 0..(cfg.n - cfg.f) |-> SimulationInboxNew]
    /\ validators = [j \in 0..(cfg.n - cfg.f - 1) |->
                        DaSimulationValidatorNew(ValidatorNew(cfg.f + j))]
    /\ panic = "none"
    /\ offered = [i \in 0..(cfg.n - cfg.f) |-> {}]
    /\ collected = [i \in 0..(cfg.n - cfg.f) |-> {}]
    /\ threads = [th \in InboxThreads |-> IdleThread]
    /\ locks = [l \in LockNames |-> NoThread]
    /\ appended = EmptyMap

\* the start of a run of main: the lotteries are those of cfg
InitWith(params) == InitRun(params, {NoLottery})

\* the sleep windows of the general specification: none, or MaxSleep rounds
\* from round a on, so that the validator wakes up in every phase
SleepWindows ==
    {{}} \cup {a..(a + MaxSleep - 1) : a \in 5..8}

\* the runs of the general specification: up to MaxN validators of which at
\* most one is corrupted, every lottery table, and one validator (the last)
\* that may sleep
GeneralParams ==
    UNION { UNION { UNION {
      { Params(n, f, kappa, MaxHorizon, thr, vrf,
               [j \in 0..(n - f - 1) |->
                   DaSchedule(IF j = n - f - 1 THEN w ELSE {}, MaxHorizon)])
        : vrf \in VrfTables(n, MaxHorizon), w \in SleepWindows }
      : kappa \in 1..2, thr \in {YMax - 1, YMax} }
      : f \in 0..(IF n > 1 THEN 1 ELSE 0) }
      : n \in 1..MaxN }

Init == InitWith(GeneralParams)

\* the loop body's first block: deliver_msgs_inflight on every inbox
Deliver ==
    /\ pc = "deliver" /\ panic = "none"
    /\ inboxes' = [i \in DOMAIN inboxes |-> DeliverMsgsInflight(inboxes[i], r)]
    /\ pc' = "adversary"
    /\ UNCHANGED <<cfg, r, stepped, validators, panic, offered, collected,
                   threads, locks, appended, lottery>>

\* adversary.rs CrashFaults::step: drain the adversary's inbox
AdversaryStep ==
    /\ pc = "adversary" /\ panic = "none"
    /\ inboxes' = [inboxes EXCEPT ![AdversaryInbox] = CollectInbox(@)]
    /\ collected' = [collected EXCEPT ![AdversaryInbox] =
           @ \cup {<<MsgDigest(m), r>> : m \in BagToSet(inboxes[AdversaryInbox].msgs)}]
    /\ pc' = "validators"
    /\ UNCHANGED <<cfg, r, stepped, validators, panic, offered, threads, locks,
                   appended, lottery>>

\* the step of the honest validator at inbox index j, in its own thread
Step(j) ==
    /\ pc = "validators" /\ panic = "none" /\ j \notin stepped
    /\ \E o \in DaSimulationValidatorStep(validators[j], r,
                    cfg.da_schedule[j][r], inboxes[j].msgs) :
         /\ validators' = [validators EXCEPT ![j] = o.d]
         /\ inboxes' = Broadcast(
               IF o.drained THEN [inboxes EXCEPT ![j] = CollectInbox(@)]
               ELSE inboxes, o.out)
         /\ collected' = IF o.drained
               THEN [collected EXCEPT ![j] =
                       @ \cup {<<MsgDigest(m), r>> : m \in BagToSet(inboxes[j].msgs)}]
               ELSE collected
         /\ offered' = [i \in DOMAIN offered |->
               offered[i] \cup {<<MsgDigest(o.out[k]), r>> : k \in 1..Len(o.out)}]
         /\ panic' = IF o.status = "ok" THEN "none" ELSE o.status
    /\ stepped' = stepped \cup {j}
    /\ UNCHANGED <<cfg, r, pc, threads, locks, appended, lottery>>

\* every thread of the round was joined: the next iteration of the loop
NextRound ==
    /\ pc = "validators" /\ panic = "none" /\ stepped = HonestIndexes
    /\ r < LastRound(cfg.t_horizon)
    /\ r' = r + 1
    /\ pc' = "deliver"
    /\ stepped' = {}
    /\ UNCHANGED <<cfg, inboxes, validators, panic, offered, collected,
                   threads, locks, appended, lottery>>

\* the loop ends after the last round of the horizon
Finish ==
    /\ pc = "validators" /\ panic = "none" /\ stepped = HonestIndexes
    /\ r = LastRound(cfg.t_horizon)
    /\ pc' = "done"
    /\ UNCHANGED <<cfg, r, stepped, inboxes, validators, panic, offered, collected,
                   threads, locks, appended, lottery>>

Next ==
    \/ Deliver
    \/ AdversaryStep
    \/ \E j \in HonestIndexes : Step(j)
    \/ NextRound
    \/ Finish

Spec == Init /\ [][Next]_vars

\* the runs of scenario FullParticipation with no faults and lottery
\* probabilities 1.0: n = 1 or n = 3, every validator awake in every round;
\* the runs of three validators whose prios tie fork, and are followed for
\* one slot
FullParticipationParams ==
    UNION {
      { Params(n, 0, kappa, IF n = 3 /\ a = 0 THEN 1 ELSE MaxHorizon, YMax,
               VrfTable(a, 1, n, MaxHorizon),
               [j \in 0..(n - 1) |-> DaSchedule({}, MaxHorizon)])
        : a \in 0..1, kappa \in 1..2 }
      : n \in {1, 3} }

SpecFull == InitWith(FullParticipationParams) /\ [][Next]_vars

\* the horizon (in slots) of the runs with a validator that sleeps in [8, 16)
SleepyHorizon == 6

\* the runs in which the last validator is Asleep in the rounds [8, 16) and
\* Awake otherwise, the others always awake; no faults, probabilities 1.0
SleepyParams ==
    { Params(2, 0, kappa, SleepyHorizon, YMax, VrfTable(a, 1, 2, SleepyHorizon),
             [j \in 0..1 |->
                 DaSchedule(IF j = 1 THEN 8..15 ELSE {}, SleepyHorizon)])
      : a \in 0..1, kappa \in 1..2 }

SpecSleepy == InitWith(SleepyParams) /\ [][Next]_vars

-----------------------------------------------------------------------------
(* The block-vote tree and the validation of messages under arbitrary        *)
(* senders: one validator is handed messages of a fixed universe, valid and  *)
(* not, in any order, and its tree is merged and expired in any order.       *)

\* the number of operations applied to the validator under test
MaxOps == 6

\* the slot at which the messages are handed to limbo: the last slot
OfferSlot == MaxHorizon

\* the slots t of the merges with a proposal and of expire_votes_before(t)
TreeSlots == 0..(MaxHorizon + 1)

TreeParams ==
    { Params(2, 0, 1, MaxHorizon, YMax, VrfTable(1, 1, 2, MaxHorizon),
             [j \in 0..1 |-> DaSchedule({}, MaxHorizon)]) }

\* a block and a vote as Block::create and Vote::create build them
BlockOf(id, slot, h) == BlockCreate(id, slot, LotteryOpen("block", id, slot), h)

VoteOf(id, slot, h) == VoteCreate(id, slot, LotteryOpen("vote", id, slot), h)

\* Proposal { tips, votes, b, sigma } signed by the proposer of b
ProposalOf(tips, votes, b) ==
    [tips |-> tips, votes |-> votes, b |-> b, sigma |-> Sign(b.ticket[1])]

\* the blocks handed in: two of slot 1 on genesis, one of slot 2 on the
\* first, and one of slot 1 on a block of slot 1
OfferedBlocks ==
    LET b1 == BlockOf(0, 1, GenesisHash) IN
    {b1, BlockOf(1, 1, GenesisHash), BlockOf(0, 2, BlockDigest(b1)),
     BlockOf(1, 1, BlockDigest(b1))}

\* the votes handed in: of slot 1 and of slot 2 for the first block of slot
\* 1, and of slot 1 for the block of slot 2
OfferedVotes ==
    LET h1 == BlockDigest(BlockOf(0, 1, GenesisHash)) IN
    {VoteOf(0, 1, h1), VoteOf(1, 2, h1),
     VoteOf(1, 1, BlockDigest(BlockOf(0, 2, h1)))}

\* the proposals handed in: a proposal of slot 2 as a proposer that knows
\* the first block and the vote of slot 1 builds it, one of slot 1 that names
\* a tip of slot 1, one of slot 2 that names a vote of slot 2, one of slot 0
\* (its block is genesis) that names a vote, and one of slot 1 for the first
\* block, with no tip and no vote
OfferedProposals ==
    LET b1 == BlockOf(0, 1, GenesisHash)
        b2 == BlockOf(0, 2, BlockDigest(b1))
    IN  {ProposalOf({BlockDigest(b1)},
                    {VoteDigest(VoteOf(0, 1, BlockDigest(b1)))}, b2),
         ProposalOf({BlockDigest(b1)}, {}, BlockOf(1, 1, GenesisHash)),
         ProposalOf({BlockDigest(b1)},
                    {VoteDigest(VoteOf(1, 2, BlockDigest(b1)))}, b2),
         ProposalOf({}, {VoteDigest(VoteOf(1, 2, BlockDigest(b1)))}, Genesis),
         ProposalOf({}, {}, b1)}

OfferedMsgs ==
    {MsgBlock(b) : b \in OfferedBlocks} \cup {MsgVote(v) : v \in OfferedVotes}
       \cup {MsgProposal(q) : q \in OfferedProposals}

InitTree == InitWith(TreeParams)

\* the validator under test
Val0 == validators[0].validator

\* the validator under test takes the place of the validator at index 0; r
\* counts the operations applied to it, at most MaxOps
TreeStep(V, status) ==
    /\ r < FirstRound + MaxOps
    /\ r' = r + 1
    /\ validators' = [validators EXCEPT ![0].validator = V]
    /\ panic' = status
    /\ UNCHANGED <<cfg, pc, stepped, inboxes, offered, collected,
                   threads, locks, appended, lottery>>

\* the limbo part of step on one message: validation and routing to the
\* buffers
Offer(m) ==
    /\ panic = "none"
    /\ LET Processed(lp) ==
              TreeStep(lp.v, IF lp.panic THEN "panic" ELSE "none")
       IN  Processed(LimboProcess(Val0, OfferSlot, <<m>>))

\* merge(buffer_blocks, buffer_votes, None), kept as the confirm phases do
MergeBuffers ==
    /\ panic = "none"
    /\ LET Merged(m) ==
              TreeStep([Val0 EXCEPT !.bvtree = m.tree,
                                    !.validation_cache = m.cache.rw,
                                    !.buffer_blocks = m.buffer_blocks,
                                    !.buffer_votes = m.buffer_votes],
                       IF MergeStatus(m) = "ok" THEN "none" ELSE MergeStatus(m))
       IN  Merged(Merge(Val0.bvtree, HashMapCache(Val0.validation_cache),
                        Val0.buffer_blocks, Val0.buffer_votes, NoProposal))

\* merge(buffer_blocks, buffer_votes, Some(p)) as phase 1 of slot t does
MergeProposal(t) ==
    /\ panic = "none"
    /\ LET Merged(mo) ==
              TreeStep(mo.v, IF mo.status = "ok" THEN "none" ELSE mo.status)
       IN  Merged(PhaseVoteMerge(Val0, t))

\* expire_votes_before(t)
ExpireVotes(t) ==
    /\ panic = "none"
    /\ IF ExpireVotesPanics(Val0.bvtree, t)
       THEN TreeStep(Val0, "panic")
       ELSE TreeStep([Val0 EXCEPT !.bvtree = ExpireVotesBefore(@, t)], "none")

NextTree ==
    \/ \E m \in OfferedMsgs : Offer(m)
    \/ MergeBuffers
    \/ \E t \in TreeSlots : MergeProposal(t)
    \/ \E t \in TreeSlots : ExpireVotes(t)

SpecTree == InitTree /\ [][NextTree]_vars

-----------------------------------------------------------------------------
(* One SimulationInbox shared by threads that call its methods at the same   *)
(* time, as the validator threads of a round do through their clones of      *)
(* inboxes: every lock() is a step of its own, and so is every statement of  *)
(* make_available.                                                           *)

\* the number of calls made on the inbox
MaxCalls == 3

\* the messages made available: a block and a vote
InboxMsgs ==
    LET b1 == BlockOf(0, 1, GenesisHash) IN
    {MsgBlock(b1), MsgVote(VoteOf(0, 1, BlockDigest(b1)))}

InitInbox == InitWith(TreeParams)

Inbox0 == inboxes[0]

ThreadStep(th, T, L, I) ==
    /\ threads' = [threads EXCEPT ![th] = T]
    /\ locks' = L
    /\ inboxes' = [inboxes EXCEPT ![0] = I]
    /\ UNCHANGED <<cfg, pc, stepped, validators, panic, collected, lottery>>

\* the locks a thread gives back when its guards go out of scope
Released(th) == [l \in LockNames |-> IF locks[l] = th THEN NoThread ELSE locks[l]]

\* thread th enters the method op; r numbers the calls
Call(th, op, m) ==
    /\ threads[th].at = "idle"
    /\ r < FirstRound + MaxCalls
    /\ r' = r + 1
    /\ offered' = IF op = "make_available"
                  THEN [offered EXCEPT ![0] = @ \cup {<<MsgDigest(m), r>>}]
                  ELSE offered
    /\ appended' = appended
    /\ ThreadStep(th, [op |-> op,
                       at |-> IF LockOrder(op) = <<>> THEN "body" ELSE "lock",
                       held |-> 0, msg |-> m, fresh |-> FALSE, rr |-> r],
                  locks, Inbox0)

\* the next lock() of the method returns: the mutex was free
Acquire(th) ==
    LET T == threads[th]
        Taken(l) ==
            /\ locks[l] = NoThread
            /\ ThreadStep(th, [T EXCEPT !.held = @ + 1,
                                        !.at = IF T.held + 1 = Len(LockOrder(T.op))
                                               THEN "body" ELSE "lock"],
                          [locks EXCEPT ![l] = th], Inbox0)
    IN  /\ T.at = "lock"
        /\ Taken(LockOrder(T.op)[T.held + 1])
        /\ UNCHANGED <<r, offered, appended>>

\* make_available: if !self_msgs_seen.contains(&hash)
SeenCheck(th) ==
    LET T == threads[th]
        fresh == MsgDigest(T.msg) \notin Inbox0.msgs_seen
    IN  /\ T.at = "body" /\ T.op = "make_available"
        /\ ThreadStep(th, [T EXCEPT !.fresh = fresh,
                                    !.at = IF fresh THEN "push" ELSE "ret"],
                      locks, Inbox0)
        /\ UNCHANGED <<r, offered, appended>>

\* make_available: self_msgs_inflight.push(msg.clone())
InflightPush(th) ==
    LET T == threads[th]
        d == MsgDigest(T.msg)
    IN  /\ T.at = "push"
        /\ ThreadStep(th, [T EXCEPT !.at = "insert"], locks,
                      [Inbox0 EXCEPT !.msgs_inflight = @ (+) SetToBag({T.msg})])
        /\ appended' = Put(appended, d, IF d \in DOMAIN appended
                                        THEN appended[d] + 1 ELSE 1)
        /\ UNCHANGED <<r, offered>>

\* make_available: self_msgs_seen.insert(hash)
SeenInsert(th) ==
    LET T == threads[th] IN
    /\ T.at = "insert"
    /\ ThreadStep(th, [T EXCEPT !.at = "ret"], locks,
                  [Inbox0 EXCEPT !.msgs_seen = @ \cup {MsgDigest(T.msg)}])
    /\ UNCHANGED <<r, offered, appended>>

\* the body of the other methods, run with all their locks held
Body(th) ==
    LET T == threads[th] IN
    /\ T.at = "body" /\ T.op # "make_available"
    /\ ThreadStep(th, [T EXCEPT !.at = "ret"], locks,
                  CASE T.op = "collect_inbox" -> CollectInbox(Inbox0)
                    [] T.op = "deliver_msgs_inflight" ->
                           DeliverMsgsInflight(Inbox0, T.rr)
                    [] OTHER -> Inbox0)
    /\ UNCHANGED <<r, offered, appended>>

\* the method returns and its guards are dropped
Return(th) ==
    /\ threads[th].at = "ret"
    /\ ThreadStep(th, IdleThread, Released(th), Inbox0)
    /\ UNCHANGED <<r, offered, appended>>

NextInbox ==
    \/ \E th \in InboxThreads, op \in InboxOps, m \in InboxMsgs : Call(th, op, m)
    \/ \E th \in InboxThreads : Acquire(th)
    \/ \E th \in InboxThreads : SeenCheck(th)
    \/ \E th \in InboxThreads : InflightPush(th)
    \/ \E th \in InboxThreads : SeenInsert(th)
    \/ \E th \in InboxThreads : Body(th)
    \/ \E th \in InboxThreads : Return(th)

SpecInbox == InitInbox /\ [][NextInbox]_vars

-----------------------------------------------------------------------------
(* The lottery as a function of the probability it is built from: a         *)
(* VrfLottery with thr = probability_f64_to_u64(p), and is_winning on        *)
(* openings over the 64-bit range.                                           *)

\* the outputs y explored: around 0, 2^61, 2^63 and 2^64 - 1
YValues ==
    {<<a, b, c, d>> : a \in {0, 8192, 32767, 32768, 65535}, b \in {0, 65535},
                      c \in {0, 65535}, d \in {0, 1, 65535}}

InitLottery ==
    InitRun(TreeParams,
            {[NoLottery EXCEPT !.p = p,
                               !.lot = VrfLotteryNew("block", ProbabilityF64ToU64(p))]
               : p \in Probabilities})

\* is_winning(pk, ticket, rho) for the key 0 and the ticket 1
LotteryCall(rho) ==
    /\ lottery' = [lottery EXCEPT
                     !.rho = rho, !.called = TRUE,
                     !.won = VrfLotteryIsWinning(lottery.lot, 0, 1, rho)]
    /\ UNCHANGED <<cfg, r, pc, stepped, inboxes, validators, panic, offered,
                   collected, threads, locks, appended>>

\* is_winning on an opening (y, pi) as open returns it
CheckOpened(y) == LotteryCall(<<y, [signer |-> 0, y |-> y]>>)

\* is_winning on an opening whose proof gives another output z
CheckForged(y, z) == y # z /\ LotteryCall(<<y, [signer |-> 0, y |-> z]>>)

NextLottery ==
    \/ \E y \in YValues : CheckOpened(y)
    \/ \E y \in YValues, z \in {U64Zero, U64Max} : CheckForged(y, z)

SpecLottery == InitLottery /\ [][NextLottery]_vars

-----------------------------------------------------------------------------
(* Properties *)

\* the validator at inbox index j, and the transition in which its thread ran
Val(j) == validators[j].validator

StepOf(j) == j \notin stepped /\ j \in stepped'

\* the validator at inbox index j ran Validator::step in the current round
RanStep(j) ==
    /\ pc = "validators" /\ j \in stepped
    /\ r \in DOMAIN validators[j].stats /\ validators[j].stats[r] = "Awake"

Height(j) == GetBlockHeight(Val(j).bvtree, Val(j).tip_fast)

\* the blocks from h up to, and without, genesis in the tree T
RECURSIVE ChainOf(_, _)
ChainOf(T, h) ==
    IF h = GenesisHash \/ h \notin DOMAIN T.blocks THEN {}
    ELSE {h} \cup ChainOf(T, T.blocks[h].h)

\* the number of distinct voter tickets of slot t counted for the block h
SlotTickets(T, h, t) == Cardinality({k \in T.votecount[h] : k[2] = t})

\* the least integer k with k >= n * (3/4 + eps/2) * p_v, where eps is
\* cfg.eps[1] / cfg.eps[2] and p_v is thr / YMax
ReachesQuorum(k) ==
    k * 4 * cfg.eps[2] * YMax
       >= cfg.n * (3 * cfg.eps[2] + 2 * cfg.eps[1]) * cfg.thr["vote"]

Quorum ==
    CHOOSE k \in 0..(cfg.n + 1) :
        ReachesQuorum(k) /\ \A k2 \in 0..(k - 1) : ~ReachesQuorum(k2)

\* C1: a message passed to make_available in round r is never returned by a
\* collect_inbox call of the same round (nor of an earlier one): every
\* message an inbox returned in round c was passed to it only in rounds
\* before c.
C1_DeliveredInLaterRound ==
    \A i \in DOMAIN collected : \A c \in collected[i] :
        /\ \E o \in offered[i] : o[1] = c[1]
        /\ \A o \in offered[i] : o[1] = c[1] => o[2] < c[2]

\* C1, the case: an inbox returned in this round a message passed to it in
\* the round before, while messages of this round are already in flight
C1_Witness ==
    \E i \in DOMAIN collected :
        /\ \E c \in collected[i] : c[2] = r /\ <<c[1], r - 1>> \in offered[i]
        /\ \E o \in offered[i] : o[2] = r
        /\ inboxes[i].msgs_inflight # EmptyBag

\* the proposals of slot t in the buffer of the validator at index j, and the
\* blocks of slot t in its tree
SlotProposals(j, t) ==
    {p \in Range(Val(j).buffer_proposals) : p.b.ticket[2] = t}

SlotBlocks(j, t) ==
    {h \in DOMAIN Val(j).bvtree.blocks : Val(j).bvtree.blocks[h].ticket[2] = t}

\* C2: validators that ran phase 1 of slot t with the same two or more
\* proposals of slot t in buffer_proposals merged the same proposal (the only
\* block of slot t in their trees is the block of one and the same proposal),
\* whatever the order in which the proposals reached them, and that proposal
\* has minimum prio.
C2_SameProposalMerged ==
    \A i, j \in DOMAIN validators :
        (/\ r % 4 = 1 /\ RanStep(i) /\ RanStep(j)
         /\ Cardinality(SlotProposals(i, r \div 4)) >= 2
         /\ SlotProposals(i, r \div 4) = SlotProposals(j, r \div 4))
        => /\ SlotBlocks(i, r \div 4) = SlotBlocks(j, r \div 4)
           /\ \E p \in SlotProposals(i, r \div 4) :
                /\ SlotBlocks(i, r \div 4) = {BlockDigest(p.b)}
                /\ \A q \in SlotProposals(i, r \div 4) :
                      LotteryPrio(p.b.rho) <= LotteryPrio(q.b.rho)

\* C2 without the tie: what the validators merged has minimum prio
C2_MinPrioMerged ==
    \A i \in DOMAIN validators :
        (r % 4 = 1 /\ RanStep(i) /\ SlotProposals(i, r \div 4) # {})
        => \E p \in SlotProposals(i, r \div 4) :
              /\ SlotBlocks(i, r \div 4) = {BlockDigest(p.b)}
              /\ \A q \in SlotProposals(i, r \div 4) :
                    LotteryPrio(p.b.rho) <= LotteryPrio(q.b.rho)

\* C3: from the end of a round to the end of the next the height of tip_fast
\* never decreases, and tip_fast is replaced only in phase 2 and only by a
\* strictly higher block.
C3_TipFastMonotone ==
    [][\A j \in DOMAIN validators :
        LET h0 == GetBlockHeight(Val(j).bvtree, Val(j).tip_fast)
            h1 == GetBlockHeight(Val(j)'.bvtree, Val(j)'.tip_fast)
        IN  /\ h1 >= h0
            /\ Val(j)'.tip_fast # Val(j).tip_fast => (r % 4 = 2 /\ h1 > h0)]_vars

\* C3, the case: after a phase-2 step the GHOST tip of the slot is lower
\* than the tip_fast the validator keeps
C3_Witness ==
    \E j \in DOMAIN validators :
        /\ r % 4 = 2 /\ RanStep(j)
        /\ Val(j).tip_fast # GenesisHash
        /\ \E h \in GhostEph(Val(j).bvtree, r \div 4, Quorum) :
              GetBlockHeight(Val(j).bvtree, h) < Height(j)

\* C4: after a phase-3 step at slot t, tip_slow is the GHOST tip of slot t
\* (no quorum) truncated back to slot t - kappa; so at the end of every round
\* tip_slow is genesis or a block of a slot at most t - kappa.
C4_TipSlowTruncated ==
    \A j \in DOMAIN validators :
        /\ (r % 4 = 3 /\ RanStep(j)) =>
              \E h \in GhostEph(Val(j).bvtree, r \div 4, 0) :
                 Val(j).tip_slow =
                    TruncateBackToSlot(Val(j).bvtree, h, (r \div 4) - cfg.kappa)
        /\ \/ Val(j).tip_slow = GenesisHash
           \/ Val(j).bvtree.blocks[Val(j).tip_slow].ticket[2] <= (r \div 4) - cfg.kappa

\* C4, the case: a phase-3 step left a tip_slow that is not genesis and is
\* lower than the GHOST tip
C4_Witness ==
    \E j \in DOMAIN validators :
        /\ r % 4 = 3 /\ RanStep(j)
        /\ Val(j).tip_slow # GenesisHash
        /\ Val(j).tip_slow \notin GhostEph(Val(j).bvtree, r \div 4, 0)

\* C5: when a step changes tip_fast, it is the phase-2 step of the slot t and
\* the new tip_fast and all its ancestors but genesis are each counted at
\* least ceil(n * (0.75 + 0.5 eps) * p_v) distinct voter tickets of slot t,
\* n counting the crashed validators too; when no child of genesis has that
\* many, tip_fast is unchanged.
C5_FastConfirmQuorum ==
    [][\A j \in DOMAIN validators :
        LET T == Val(j)'.bvtree
            t == r \div 4
        IN  /\ Val(j)'.tip_fast # Val(j).tip_fast =>
                 /\ r % 4 = 2
                 /\ \A h \in ChainOf(T, Val(j)'.tip_fast) :
                       SlotTickets(T, h, t) >= Quorum
            /\ (\A c \in T.children[GenesisHash] : SlotTickets(T, c, t) < Quorum)
                 => Val(j)'.tip_fast = Val(j).tip_fast]_vars

\* C5, the case: the phase-2 step of this round moved tip_fast to a block of
\* the slot, on top of an earlier block, in a run whose quorum is two votes
C5_Witness ==
    \E j \in DOMAIN validators :
        /\ r % 4 = 2 /\ RanStep(j) /\ Quorum >= 2
        /\ Val(j).tip_fast # GenesisHash
        /\ Val(j).bvtree.blocks[Val(j).tip_fast].ticket[2] = r \div 4
        /\ Height(j) >= 2

\* C6: at the end of every round tip_best is tip_fast when tip_fast is
\* strictly higher than tip_slow and tip_slow otherwise, so its height is the
\* larger of the two heights.
C6_TipBest ==
    \A j \in DOMAIN validators :
        LET T == Val(j).bvtree
            hf == GetBlockHeight(T, Val(j).tip_fast)
            hs == GetBlockHeight(T, Val(j).tip_slow)
        IN  /\ Val(j).tip_best = IF hf > hs THEN Val(j).tip_fast ELSE Val(j).tip_slow
            /\ GetBlockHeight(T, Val(j).tip_best) = IF hf > hs THEN hf ELSE hs

\* C6, the case: tip_fast is strictly higher than a tip_slow that is not
\* genesis
C6_Witness ==
    \E j \in DOMAIN validators :
        /\ Val(j).tip_slow # GenesisHash
        /\ Height(j) > GetBlockHeight(Val(j).bvtree, Val(j).tip_slow)
        /\ Val(j).tip_best = Val(j).tip_fast

\* C9: a validator that is Asleep and whose schedule is Awake in round r
\* becomes Dreamy with end-of-joining round 4 * floor(r / 4) + 3; a Dreamy
\* validator whose schedule is Awake stays Dreamy in every round before that
\* round and becomes Awake exactly in it; so a validator becomes Awake only
\* in a round with r mod 4 = 3 that is its end-of-joining round.
C9_SleepLifecycle ==
    [][\A j \in DOMAIN validators :
        (StepOf(j) /\ panic' = "none") =>
          LET D == validators[j]
              E == validators[j]'
              awake == cfg.da_schedule[j][r] = "Awake"
              last == 4 * (r \div 4) + 3
          IN  /\ (D.sleep_status = "Asleep" /\ awake) =>
                    /\ E.r_end_of_joining = last
                    /\ E.sleep_status = IF r = last THEN "Awake" ELSE "Dreamy"
              /\ (D.sleep_status = "Dreamy" /\ awake) =>
                    /\ E.r_end_of_joining = D.r_end_of_joining
                    /\ E.sleep_status =
                          IF r = D.r_end_of_joining THEN "Awake" ELSE "Dreamy"
              /\ D.sleep_status = "Dreamy" => r <= D.r_end_of_joining
              /\ (D.sleep_status # "Awake" /\ E.sleep_status = "Awake") =>
                    r % 4 = 3 /\ r = E.r_end_of_joining]_vars

\* C9, the case: a validator that was Dreamy in the round before resumed in
\* this round
C9_Witness ==
    \E j \in DOMAIN validators :
        /\ RanStep(j)
        /\ (r - 1) \in DOMAIN validators[j].stats
        /\ validators[j].stats[r - 1] = "Dreamy"

\* C10: the step of a round in which the validator is Asleep or Dreamy
\* changes no inbox (nothing is broadcast, its own inbox is not drained),
\* and leaves the BV-tree, limbo, the buffers, the validation cache, the
\* relayed set and the three tips as they were; it only records the stats of
\* the round.
C10_SleepingFrame ==
    [][\A j \in DOMAIN validators :
        (StepOf(j) /\ validators[j]'.sleep_status \in {"Asleep", "Dreamy"}) =>
          /\ inboxes' = inboxes
          /\ offered' = offered /\ collected' = collected
          /\ [Val(j)' EXCEPT !.stats = Val(j).stats] = Val(j)
          /\ DOMAIN Val(j)'.stats = DOMAIN Val(j).stats \cup {r}
          /\ \A q \in DOMAIN Val(j).stats \ {r} : Val(j)'.stats[q] = Val(j).stats[q]
          /\ validators[j]'.stats =
                Put(validators[j].stats, r, validators[j]'.sleep_status)]_vars

\* C10, the case: a validator slept through this round's step while messages
\* wait in its inbox
C10_Witness ==
    \E j \in DOMAIN validators :
        /\ pc = "validators" /\ j \in stepped
        /\ validators[j].sleep_status \in {"Asleep", "Dreamy"}
        /\ inboxes[j].msgs # EmptyBag
        /\ r \in DOMAIN Val(j).stats

\* every thread of round rr has returned
EndOfRound(rr) == pc \in {"validators", "done"} /\ r = rr /\ stepped = HonestIndexes

\* C7: with full participation, no faults and lottery probabilities 1
\* (n = 1 or n = 3), in every slot t >= 1: a block of slot t is proposed in
\* round 4t, one block of slot t is in every tree at the end of round 4t+1, and
\* at the end of round 4t+2 it has the votes of slot t of all n validators and
\* is the tip_fast of every validator; with n = 1 tip_fast is the block of
\* slot 1 at the end of round 6 and the best-ledger length recorded in the
\* last round of a 2-slot run is 2.
C7_FullParticipation ==
    (cfg.f = 0 /\ cfg.n \in {1, 3} /\ panic = "none") =>
      LET t == r \div 4 IN
      /\ (EndOfRound(r) /\ r % 4 = 0) =>
            \E m \in BagToSet(inboxes[0].msgs_inflight) :
               m.kind = "Proposal" /\ m.x.b.ticket[2] = t
      /\ (EndOfRound(r) /\ r % 4 = 1) =>
            \E h \in SlotBlocks(0, t) : \A j \in DOMAIN validators : SlotBlocks(j, t) = {h}
      /\ (EndOfRound(r) /\ r % 4 = 2) =>
            \E h \in SlotBlocks(0, t) : \A j \in DOMAIN validators :
               /\ Val(j).tip_fast = h
               /\ SlotTickets(Val(j).bvtree, h, t) = cfg.n
      /\ (cfg.n = 1 /\ EndOfRound(6)) =>
            Val(0).bvtree.blocks[Val(0).tip_fast].ticket[2] = 1
      /\ (cfg.n = 1 /\ EndOfRound(11)) =>
            Val(0).stats[11].ledger_best.length = 2

\* C7 when the proposals of a slot have different prios
C7_DistinctPrio ==
    (\A i, j \in 0..(cfg.n - 1) : \A t \in 1..cfg.t_horizon :
        i # j => cfg.vrf[<<"block", i, t>>] # cfg.vrf[<<"block", j, t>>])
    => C7_FullParticipation

\* the validator at index j never slept
NeverSlept(j) == \A rr \in DOMAIN cfg.da_schedule[j] : cfg.da_schedule[j][rr] = "Awake"

\* C8: the validator that slept in the rounds [8, 16) becomes Awake in round
\* 19; at the end of every phase-3 round from kappa slots later on, its
\* tip_slow is the tip_slow of the validators that never slept.
C8_SleeperCatchesUp ==
    (panic = "none" /\ EndOfRound(r) /\ r % 4 = 3 /\ r >= 19 + 4 * cfg.kappa) =>
       \A i, j \in DOMAIN validators :
          (~NeverSlept(i) /\ NeverSlept(j)) =>
             /\ validators[i].stats[19] = "Awake"
             /\ Val(i).tip_slow = Val(j).tip_slow

\* C8 when the proposals of a slot have different prios
C8_DistinctPrio ==
    (\A t \in 1..cfg.t_horizon : cfg.vrf[<<"block", 0, t>>] # cfg.vrf[<<"block", 1, t>>])
    => C8_SleeperCatchesUp


\* C11: in the tree of every validator every block but genesis has its parent
\* in the tree and a slot strictly greater than the slot of its parent.
C11_ParentSlotBelow ==
    \A j \in DOMAIN validators :
        \A h \in DOMAIN Val(j).bvtree.blocks \ {GenesisHash} :
            LET b == Val(j).bvtree.blocks[h] IN
            /\ b.h \in DOMAIN Val(j).bvtree.blocks
            /\ b.ticket[2] > Val(j).bvtree.blocks[b.h].ticket[2]

\* C11, the case: the tree holds a block on a block that is not genesis,
\* while a block of the slot of its parent waits in limbo or was dropped
C11_Witness ==
    \E j \in DOMAIN validators :
        /\ \E h \in DOMAIN Val(j).bvtree.blocks \ {GenesisHash} :
              Val(j).bvtree.blocks[h].h # GenesisHash
        /\ \E b \in OfferedBlocks :
              /\ b.h \in DOMAIN Val(j).bvtree.blocks \ {GenesisHash}
              /\ b.ticket[2] <= Val(j).bvtree.blocks[b.h].ticket[2]
              /\ BlockDigest(b) \notin DOMAIN Val(j).bvtree.blocks

\* the tree of the validator at index j is rooted at genesis and closed
\* under parents, and every block has a children and a votecount entry
TreeClosed(j) ==
    LET T == Val(j).bvtree IN
    /\ GenesisHash \in DOMAIN T.blocks
    /\ T.blocks[GenesisHash] = Genesis
    /\ \A h \in DOMAIN T.blocks \ {GenesisHash} : T.blocks[h].h \in DOMAIN T.blocks
    /\ DOMAIN T.children = DOMAIN T.blocks
    /\ DOMAIN T.votecount = DOMAIN T.blocks

\* C12: the tree of every validator holds genesis, the parent of every other
\* block it holds, and a children and a votecount entry for every block; no
\* step removes or replaces a block.
C12_RootedClosedGrowing ==
    [][\A j \in DOMAIN validators :
         /\ TreeClosed(j)'
         /\ \A h \in DOMAIN Val(j).bvtree.blocks :
               /\ h \in DOMAIN Val(j)'.bvtree.blocks
               /\ Val(j)'.bvtree.blocks[h] = Val(j).bvtree.blocks[h]]_vars

\* C12, the case: after the cleanup of a step the tree holds a chain of two
\* blocks on genesis, the lower one of a slot before the slot of the step
C12_Witness ==
    \E j \in DOMAIN validators :
        /\ TreeClosed(j) /\ RanStep(j)
        /\ \E h \in DOMAIN Val(j).bvtree.blocks \ {GenesisHash} :
              /\ Val(j).bvtree.blocks[h].h # GenesisHash
              /\ Val(j).bvtree.blocks[Val(j).bvtree.blocks[h].h].ticket[2] < r \div 4


\* the blocks and the votes the validator at index j holds, in its tree or
\* in its buffers
HeldBlocks(j) == Val(j).bvtree.blocks @@ Val(j).buffer_blocks

TreeVotes(j) == {Val(j).bvtree.votes[k] : k \in DOMAIN Val(j).bvtree.votes}

HeldVotes(j) ==
    TreeVotes(j) \cup {Val(j).buffer_votes[k] : k \in DOMAIN Val(j).buffer_votes}

\* C13: every vote a validator holds, in the votes map of its tree or in
\* buffer_votes, has its target block in the tree or in buffer_blocks, and
\* the slot of the vote is at least the slot of the target.
C13_VoteSlotAtLeastTarget ==
    \A j \in DOMAIN validators : \A v \in HeldVotes(j) :
        /\ v.h \in DOMAIN HeldBlocks(j)
        /\ v.ticket[2] >= HeldBlocks(j)[v.h].ticket[2]

\* C13, the case: the tree holds a vote of a slot after the slot of its
\* target, and a vote of a slot before the slot of its target, a block the
\* validator holds, was kept out
C13_Witness ==
    \E j \in DOMAIN validators :
        /\ \E v \in TreeVotes(j) :
              v.ticket[2] > Val(j).bvtree.blocks[v.h].ticket[2]
        /\ \E v \in OfferedVotes \ HeldVotes(j) :
              /\ v.h \in DOMAIN HeldBlocks(j)
              /\ v.ticket[2] < HeldBlocks(j)[v.h].ticket[2]


\* the proposal p, held by the validator at index j, names as tips blocks
\* the validator holds, of slots before its own, and as votes votes the
\* validator holds, of the slot before its own
WellFormed(j, p) ==
    /\ \A h \in p.tips :
          /\ h \in DOMAIN HeldBlocks(j)
          /\ HeldBlocks(j)[h].ticket[2] < p.b.ticket[2]
    /\ \A k \in p.votes :
          \E v \in HeldVotes(j) :
              VoteDigest(v) = k /\ v.ticket[2] = p.b.ticket[2] - 1

\* the verdict of is_valid on the proposal q, as limbo asks for it
LimboVerdict(j, q) ==
    ProposalIsValid(q,
        RoValidationCache(UnionValidationCache(Val(j).validation_cache, EmptyMap)),
        BufferAugmentedBvTree(Val(j).bvtree, Val(j).buffer_blocks,
                              Val(j).buffer_votes)).res

SlotZeroWithVotes == {q \in OfferedProposals : q.b.ticket[2] = 0 /\ q.votes # {}}

C15_TipsAreChildless ==
    \A j \in DOMAIN validators :
        Val(j).bvtree.tips =
            {h \in DOMAIN Val(j).bvtree.blocks : Val(j).bvtree.children[h] = {}}

\* C15, the case: a block with a child in the tree was inserted again by the
\* merge of its proposal (its children set was reset), and tips holds the
\* block and its child
C15_Witness ==
    \E j \in DOMAIN validators :
        \E h \in DOMAIN Val(j).bvtree.blocks \ {GenesisHash} :
            LET parent == Val(j).bvtree.blocks[h].h IN
            /\ parent # GenesisHash
            /\ h \notin Val(j).bvtree.children[parent]
            /\ {h, parent} \subseteq Val(j).bvtree.tips


\* the tickets of the votes in the votes map of T that are for the block h
\* or for a descendant of h
SubtreeTickets(T, h) ==
    {T.votes[k].ticket : k \in
        {x \in DOMAIN T.votes :
            h \in ChainOf(T, T.votes[x].h) \cup {GenesisHash}}}

\* C16: in the tree of every validator the votecount of every block is the
\* set of the tickets of the votes in the votes map that are for the block or
\* for a descendant of it; so it holds no ticket of an expired vote, and
\* votecount of genesis holds the tickets of all the votes of the map.
C16_VotecountIsSubtreeVotes ==
    \A j \in DOMAIN validators :
        LET T == Val(j).bvtree IN
        /\ \A h \in DOMAIN T.blocks : T.votecount[h] = SubtreeTickets(T, h)
        /\ T.votecount[GenesisHash] = {T.votes[k].ticket : k \in DOMAIN T.votes}

\* C16, the case: the votes of the first slot were expired, and a vote of
\* the slot is counted for its target, a block on a block, for the parent
\* and for genesis
C16_Witness ==
    \E j \in DOMAIN validators :
        LET T == Val(j).bvtree IN
        /\ r \div 4 = 2 /\ RanStep(j)
        /\ \E k \in DOMAIN T.votes :
              /\ T.votes[k].ticket[2] = 2
              /\ T.votes[k].h # GenesisHash
              /\ T.blocks[T.votes[k].h].h # GenesisHash
              /\ T.votes[k].ticket \in T.votecount[T.blocks[T.votes[k].h].h]
        /\ \A k \in DOMAIN T.votes : T.votes[k].ticket[2] >= 2
        /\ \E h \in DOMAIN T.blocks :
              T.blocks[h].ticket[2] = 1 /\ T.votecount[h] # {}


\* C17: a step in which expire_votes_before(t) returns leaves no vote of a
\* slot before t in the votes map and no ticket of a slot before t in a
\* votecount set, and leaves the votes and the tickets of the slots from t
\* on, the blocks, the children and the tips as they were.
C17_ExpireVotesBefore ==
    [][\A t \in TreeSlots :
         (ExpireVotes(t) /\ panic' = "none") =>
            LET T == Val0.bvtree
                U == Val0'.bvtree
            IN  /\ \A k \in DOMAIN U.votes : U.votes[k].ticket[2] >= t
                /\ \A h \in DOMAIN U.votecount :
                      \A tk \in U.votecount[h] : tk[2] >= t
                /\ \A k \in DOMAIN T.votes :
                      T.votes[k].ticket[2] >= t =>
                         k \in DOMAIN U.votes /\ U.votes[k] = T.votes[k]
                /\ DOMAIN U.votes \subseteq DOMAIN T.votes
                /\ DOMAIN U.votecount = DOMAIN T.votecount
                /\ \A h \in DOMAIN T.votecount :
                      /\ U.votecount[h] \subseteq T.votecount[h]
                      /\ \A tk \in T.votecount[h] :
                            tk[2] >= t => tk \in U.votecount[h]
                /\ U.blocks = T.blocks
                /\ U.children = T.children
                /\ U.tips = T.tips]_vars

\* C17, the case: a vote of slot 1 that was merged into the tree has been
\* expired, while a vote of slot 2 and its ticket are still there
C17_Witness ==
    /\ \E v \in OfferedVotes :
          /\ v.ticket[2] = 1
          /\ MsgDigest(MsgVote(v)) \in Val0.msgs_relayed
          /\ v \notin HeldVotes(0)
    /\ \E k \in DOMAIN Val0.bvtree.votes :
          /\ Val0.bvtree.votes[k].ticket[2] = 2
          /\ Val0.bvtree.votes[k].ticket \in Val0.bvtree.votecount[GenesisHash]
    /\ \A h \in DOMAIN Val0.bvtree.votecount :
          \A tk \in Val0.bvtree.votecount[h] : tk[2] >= 2


\* C18: ghost_eph(t, m) is a function of the tree, t and m: on the tree of
\* every validator, for every slot t and every quorum m, the calls of
\* ghost_eph(t, m) can return one hash only, also when several children of a
\* block have the same maximal count of slot-t tickets.
C18_GhostEphDeterministic ==
    \A j \in DOMAIN validators : \A t \in TreeSlots : \A m \in 0..cfg.n :
        Cardinality(GhostEph(Val(j).bvtree, t, m)) = 1

\* C18 where no two children tie: a tree in which the children of every
\* block have different counts of slot-t tickets has one GHOST tip
C18_GhostEphUntied ==
    \A j \in DOMAIN validators : \A t \in TreeSlots : \A m \in 0..cfg.n :
        LET T == Val(j).bvtree IN
        (\A h \in DOMAIN T.children : \A c, d \in T.children[h] :
            c # d => SlotCount(T, c, t) # SlotCount(T, d, t))
        => Cardinality(GhostEph(T, t, m)) = 1


\* the proposals of slot t in buffer_proposals of the validator at index j,
\* in the order of the buffer, and every rearrangement of a sequence ps
SlotProposalSeq(j, t) ==
    SelectSeq(Val(j).buffer_proposals, LAMBDA p : p.b.ticket[2] = t)

Rearranged(ps) ==
    {[i \in 1..Len(ps) |-> ps[pi[i]]] : pi \in Perms(1..Len(ps))}

\* C19: a validator that ran phase 1 of slot t merged a proposal of slot t
\* if and only if buffer_proposals holds one; the merged proposal has the
\* minimum prio of the proposals of slot t in the buffer, and it is the one
\* selected whatever the positions of these proposals in the buffer.
C19_SelectionIgnoresPosition ==
    \A j \in DOMAIN validators :
        (r % 4 = 1 /\ RanStep(j)) =>
            LET t == r \div 4
                ps == SlotProposalSeq(j, t)
            IN  /\ (SlotBlocks(j, t) # {}) <=> (ps # <<>>)
                /\ \A q \in Rearranged(ps) : ps # <<>> =>
                      /\ SlotBlocks(j, t) = {BlockDigest(MinPrioProposal(q).b)}
                      /\ \A i \in 1..Len(ps) :
                            LotteryPrio(MinPrioProposal(q).b.rho)
                               <= LotteryPrio(ps[i].b.rho)

\* C19 where the minimum is unique: the merged proposal is the proposal of
\* minimum prio, in every arrangement of the buffer
C19_UniqueMinimum ==
    \A j \in DOMAIN validators :
        (r % 4 = 1 /\ RanStep(j)) =>
            LET t == r \div 4
                ps == SlotProposalSeq(j, t)
            IN  /\ (SlotBlocks(j, t) # {}) <=> (ps # <<>>)
                /\ (\A a, b \in 1..Len(ps) :
                       a # b => LotteryPrio(ps[a].b.rho) # LotteryPrio(ps[b].b.rho))
                    => \A q \in Rearranged(ps) : ps # <<>> =>
                          SlotBlocks(j, t) = {BlockDigest(MinPrioProposal(q).b)}


\* the tree that merge(buffer_blocks, buffer_votes, None) leaves, or the
\* tree as it is when that merge does not return
MergedAgain(T, cache, bb, bv) ==
    LET Done(m) == IF MergeStatus(m) = "ok" THEN m.tree ELSE [T EXCEPT !.tips = {}]
    IN  Done(Merge(T, HashMapCache(cache), bb, bv, NoProposal))

\* C20: after a step in which merge(buffer_blocks, buffer_votes, None)
\* returns, both buffers are empty, and a second merge with no proposal, on
\* the buffers as they are left or on empty buffers, returns and leaves
\* blocks, votes, votecount, children and tips of the tree as they are.
C20_SecondMergeNoOp ==
    [][(MergeBuffers /\ panic' = "none") =>
          LET U == Val0'.bvtree
              W == MergedAgain(U, Val0'.validation_cache,
                               Val0'.buffer_blocks, Val0'.buffer_votes)
              X == MergedAgain(U, Val0'.validation_cache, EmptyMap, EmptyMap)
          IN  /\ Val0'.buffer_blocks = EmptyMap
              /\ Val0'.buffer_votes = EmptyMap
              /\ W = U
              /\ X = U]_vars

\* C20, the case: a merge without proposal has put a block and a vote into
\* the tree that no proposal of the harness carries, and left the buffers
\* empty
C20_Witness ==
    /\ panic = "none"
    /\ Val0.buffer_blocks = EmptyMap
    /\ Val0.buffer_votes = EmptyMap
    /\ BlockDigest(BlockOf(1, 1, GenesisHash)) \in DOMAIN Val0.bvtree.blocks
    /\ \E k \in DOMAIN Val0.bvtree.votes :
          Val0.bvtree.votes[k].ticket = <<1, 2>>

\* the digest under which is_valid caches the verdict of the message m
ItemDigest(m) ==
    CASE m.kind = "Block" -> BlockDigest(m.x)
      [] m.kind = "Vote" -> VoteDigest(m.x)
      [] OTHER -> ProposalDigest(m.x)

\* the verdicts held by the map c
Held(c) == {c[k] : k \in DOMAIN c}

\* the scratch map of limbo processing (bvset_validation_rw_cache) as the
\* while loop leaves it, when the validator V takes in arrival in slot t
LimboScratch(V, t, arrival) ==
    LimboLoop([limbo |-> LimboIntake(V, t, arrival),
               buffer_blocks |-> V.buffer_blocks,
               buffer_votes |-> V.buffer_votes,
               buffer_proposals |-> V.buffer_proposals,
               msgs_relayed |-> V.msgs_relayed,
               rw |-> EmptyMap, done |-> TRUE, panic |-> FALSE], V, t).rw

\* the views a validator validates against: its tree, with and without buffers
ViewsOf(V) ==
    {TreeView(V.bvtree),
     BufferAugmentedBvTree(V.bvtree, V.buffer_blocks, V.buffer_votes)}

\* the caches is_valid is called with: the authoritative map, writable or
\* behind the read-only wrapper
CachesOf(V) ==
    {HashMapCache(V.validation_cache),
     RoValidationCache(HashMapCache(V.validation_cache))}

\* C21 as stated: no cache holds Unknown, and an is_valid call that returns
\* Unknown has inserted nothing at all.
C21_UnknownInsertsNothing ==
    /\ Held(Val0.validation_cache) \subseteq {"Valid", "Invalid"}
    /\ \A m \in OfferedMsgs :
          Held(LimboScratch(Val0, OfferSlot, <<m>>)) \subseteq {"Valid", "Invalid"}
    /\ \A m \in OfferedMsgs : \A c \in CachesOf(Val0) : \A view \in ViewsOf(Val0) :
          LET Checked(vd) ==
                /\ Held(vd.cache.rw) \subseteq {"Valid", "Invalid"}
                /\ vd.res = "Unknown" => vd.cache = c
          IN  Checked(MsgIsValid(m, c, view))

\* C21: the authoritative map, the scratch map of limbo and the cache that
\* an is_valid call leaves hold only Valid and Invalid; a call that returns
\* Unknown has inserted no verdict for the item it was called on, and, for a
\* block or a vote, has inserted nothing at all; through the read-only
\* wrapper nothing is ever inserted.
C21_UnknownNeverCached ==
    /\ Held(Val0.validation_cache) \subseteq {"Valid", "Invalid"}
    /\ \A m \in OfferedMsgs :
          Held(LimboScratch(Val0, OfferSlot, <<m>>)) \subseteq {"Valid", "Invalid"}
    /\ \A m \in OfferedMsgs : \A c \in CachesOf(Val0) : \A view \in ViewsOf(Val0) :
          LET Checked(vd) ==
                /\ Held(vd.cache.rw) \subseteq {"Valid", "Invalid"}
                /\ ~c.writable => vd.cache = c
                /\ vd.res = "Unknown" =>
                      /\ CacheGet(vd.cache, ItemDigest(m)) = "None"
                      /\ m.kind # "Proposal" => vd.cache = c
                /\ (vd.res \in {"Valid", "Invalid"} /\ c.writable) =>
                      CacheGet(vd.cache, ItemDigest(m)) = vd.res
          IN  Checked(MsgIsValid(m, c, view))

\* C21, the case: the authoritative map holds verdicts, one offered message
\* validates as Unknown, another as Invalid and its verdict is cached, and
\* the scratch map of limbo has taken a verdict
C21_Witness ==
    /\ Val0.validation_cache # EmptyMap
    /\ \E m \in OfferedMsgs :
          MsgIsValid(m, HashMapCache(Val0.validation_cache),
                     TreeView(Val0.bvtree)).res = "Unknown"
    /\ \E m \in OfferedMsgs :
          LET Cached(vd) ==
                vd.res = "Invalid" /\ CacheGet(vd.cache, ItemDigest(m)) = "Invalid"
          IN  Cached(MsgIsValid(m, HashMapCache(Val0.validation_cache),
                                TreeView(Val0.bvtree)))
    /\ \E m \in OfferedMsgs : LimboScratch(Val0, OfferSlot, <<m>>) # EmptyMap

\* the messages of the harness that the validator under test has validated
\* as Valid (msgs_relayed takes the digest right after the Valid verdict)
ValidatedMsgs == {m \in OfferedMsgs : MsgDigest(m) \in Val0.msgs_relayed}

\* the views of the validator under test now and after a cleanup in slot t
LaterViews ==
    ViewsOf(Val0) \cup UNION {ViewsOf(Cleanup(Val0, t)) : t \in TreeSlots}

\* the view holds the chain of blocks from h back to genesis
ChainKnown(view, h) == TipAncestry(view, h) \subseteq DOMAIN view.blocks

\* the view holds every block and vote the validation of m looks up
RefsKnown(m, view) ==
    CASE m.kind = "Block" -> ChainKnown(view, m.x.h)
      [] m.kind = "Vote" -> ChainKnown(view, m.x.h)
      [] OTHER ->
           /\ ChainKnown(view, m.x.b.h)
           /\ \A h \in m.x.tips : ChainKnown(view, h)
           /\ \A k \in m.x.votes :
                 k \in DOMAIN view.votes /\ ChainKnown(view, view.votes[k].h)

LimboView(V) == BufferAugmentedBvTree(V.bvtree, V.buffer_blocks, V.buffer_votes)

\* the vote v is counted in the tree T: it is in votes, or its ticket is in
\* a votecount set
Counted(T, v) ==
    \/ VoteDigest(v) \in DOMAIN T.votes
    \/ \E h \in DOMAIN T.votecount : v.ticket \in T.votecount[h]

\* the vote v is in votes and its ticket in the votecount sets of its target
\* and of every ancestor of the target, genesis included
Absorbed(T, v) ==
    /\ VoteDigest(v) \in DOMAIN T.votes
    /\ \A h \in TipAncestry(TreeView(T), v.h) \cup {GenesisHash} :
          h \in DOMAIN T.votecount /\ v.ticket \in T.votecount[h]

\* what limbo processing has done with the vote v when the step ends with the
\* validator W: Unknown exactly when the target is not in the view, and then
\* v is in limbo, out of buffer_votes and uncounted; Valid puts it into
\* buffer_votes, Invalid drops it
VoteRouted(v, W, res) ==
    /\ res = "Unknown" <=> v.h \notin DOMAIN LimboView(W).blocks
    /\ res = "Unknown" =>
          /\ MsgVote(v) \in Range(W.limbo)
          /\ VoteDigest(v) \notin DOMAIN W.buffer_votes
          /\ MsgDigest(MsgVote(v)) \notin W.msgs_relayed
          /\ ~Counted(W.bvtree, v)
    /\ res = "Valid" =>
          /\ MsgVote(v) \notin Range(W.limbo)
          /\ VoteDigest(v) \in DOMAIN W.buffer_votes
          /\ W.buffer_votes[VoteDigest(v)] = v
    /\ res = "Invalid" =>
          /\ MsgVote(v) \notin Range(W.limbo)
          /\ VoteDigest(v) \notin DOMAIN W.buffer_votes

\* a step of limbo processing that changed the validator under test: the
\* tree and the authoritative cache are as before and the buffers have lost
\* nothing, which no merge and no expiry that changes the validator does
LimboChanged ==
    /\ Val0' # Val0
    /\ Val0'.bvtree = Val0.bvtree
    /\ Val0'.validation_cache = Val0.validation_cache
    /\ DOMAIN Val0.buffer_blocks \subseteq DOMAIN Val0'.buffer_blocks
    /\ DOMAIN Val0.buffer_votes \subseteq DOMAIN Val0'.buffer_votes

\* C23: a vote of a slot >= t - 1 that waits in limbo, or arrives, and whose
\* target is not in the view when the step ends stays in limbo, out of
\* buffer_votes and uncounted; in the step that brings the target into the
\* view the vote, if its lottery and slot are right, moves from limbo to
\* buffer_votes; and a merge that takes a vote from buffer_votes puts it
\* into votes and its ticket into votecount from the target up to genesis.
C23_VoteWaitsForTarget ==
    [][/\ \A v \in OfferedVotes :
            (/\ panic' = "none"
             /\ v.ticket[2] >= OfferSlot - 1
             /\ MsgDigest(MsgVote(v)) \notin Val0.msgs_relayed
             /\ \/ MsgVote(v) \in Range(Val0.limbo) /\ LimboChanged
                \/ Val0'.bvtree = Val0.bvtree /\ Offer(MsgVote(v)))
            => VoteRouted(v, Val0',
                          VoteIsValid(v, HashMapCache(Val0.validation_cache),
                                      LimboView(Val0')).res)
       /\ (/\ panic' = "none"
           /\ Val0.buffer_votes # EmptyMap
           /\ Val0'.limbo = Val0.limbo
           /\ MergeBuffers) =>
             \A k \in DOMAIN Val0.buffer_votes :
                 /\ k \notin DOMAIN Val0'.buffer_votes
                 /\ Absorbed(Val0'.bvtree, Val0.buffer_votes[k])
       /\ \A t \in TreeSlots :
             (/\ panic' = "none"
              /\ Val0.buffer_votes # EmptyMap
              /\ Val0'.limbo = Val0.limbo
              /\ MergeProposal(t)) =>
                \A k \in DOMAIN Val0.buffer_votes :
                    \/ /\ k \notin DOMAIN Val0'.buffer_votes
                       /\ Absorbed(Val0'.bvtree, Val0.buffer_votes[k])
                    \/ /\ k \in DOMAIN Val0'.buffer_votes
                       /\ Counted(Val0'.bvtree, Val0.buffer_votes[k])
                             => Counted(Val0.bvtree, Val0.buffer_votes[k])]_vars

\* C23, the case: one vote waits in limbo for a target that is not in the
\* view, while a vote whose target arrived has gone through buffer_votes and
\* is counted in the tree for its target and for genesis
C23_Witness ==
    /\ panic = "none"
    /\ \E v \in OfferedVotes :
          /\ MsgVote(v) \in Range(Val0.limbo)
          /\ v.h \notin DOMAIN LimboView(Val0).blocks
          /\ VoteDigest(v) \notin DOMAIN Val0.buffer_votes
    /\ \E v \in OfferedVotes :
          /\ v.h # GenesisHash
          /\ MsgDigest(MsgVote(v)) \in Val0.msgs_relayed
          /\ Absorbed(Val0.bvtree, v)

\* the votes that collect_inbox returned to the validator at index j in a
\* round of a slot t with slot(v) < t - 1, as digests of votes
StaleVotes(j) ==
    {c[1][3] : c \in {x \in collected[j] :
                        /\ Len(x[1]) = 3
                        /\ x[1][3][1] = "vote"
                        /\ x[1][3][2][2] < (x[2] \div 4) - 1}}

\* C24: a vote that a validator collects in slot t and whose slot is below
\* t - 1 is dropped at limbo intake: from then on it is not in limbo, not in
\* msgs_relayed (it was never validated), not in buffer_votes, not in the
\* votes of the tree, and its ticket is in no votecount set.
C24_StaleVoteDropped ==
    \A j \in DOMAIN validators : \A d \in StaleVotes(j) :
        /\ \A i \in 1..Len(Val(j).limbo) :
              Val(j).limbo[i].kind = "Vote" => VoteDigest(Val(j).limbo[i].x) # d
        /\ <<"message", "piece", d>> \notin Val(j).msgs_relayed
        /\ d \notin DOMAIN Val(j).buffer_votes
        /\ d \notin DOMAIN Val(j).bvtree.votes
        /\ \A h \in DOMAIN Val(j).bvtree.votecount :
              d[2] \notin Val(j).bvtree.votecount[h]

\* C24, the case: a validator that slept has collected a vote of a slot below
\* t - 1 together with a vote of slot t - 1, which it kept and counted
C24_Witness ==
    \E j \in DOMAIN validators :
        /\ StaleVotes(j) # {}
        /\ RanStep(j)
        /\ \E k \in DOMAIN Val(j).bvtree.votes :
              Val(j).bvtree.votes[k].ticket[2] = r \div 4

\* In the runs of main: a step of an awake validator in slot t leaves only
\* proposals of slot >= t, votes and blocks of slot >= t - 1 and limbo
\* messages of slot >= t - kappa, and keeps every buffered proposal of slot
\* >= t, the ones that were not selected included.
BuffersPrunedInRuns ==
    [][\A j \in DOMAIN validators :
          (StepOf(j) /\ RanStep(j)') =>
             LET t == r \div 4
                 V == Val(j)
                 W == Val(j)'
             IN  /\ \A i \in 1..Len(W.buffer_proposals) :
                       W.buffer_proposals[i].b.ticket[2] >= t
                 /\ \A k \in DOMAIN W.buffer_votes :
                       W.buffer_votes[k].ticket[2] >= t - 1
                 /\ \A k \in DOMAIN W.buffer_blocks :
                       W.buffer_blocks[k].ticket[2] >= t - 1
                 /\ \A i \in 1..Len(W.limbo) :
                       MsgSlot(W.limbo[i]) >= t - cfg.kappa
                 /\ \A p \in Range(V.buffer_proposals) :
                       p.b.ticket[2] >= t <=> p \in Range(W.buffer_proposals)]_vars

\* after phase 1 of slot t a validator holds two proposals of slot t, of
\* which it merged one, and none of an earlier slot although it has merged a
\* block of an earlier slot
LoserKeptInRuns ==
    \E j \in DOMAIN validators :
        /\ RanStep(j) /\ r % 4 = 1
        /\ Cardinality(SlotProposals(j, r \div 4)) = 2
        /\ Cardinality(SlotBlocks(j, r \div 4)) = 1
        /\ SlotBlocks(j, (r \div 4) - 1) # {}
        /\ (r \div 4) - 1 > 0

\* the rounds in which the validator under test is stepped: every phase of
\* the slots 1..MaxHorizon + 1
StepRounds == FirstRound..(4 * (MaxHorizon + 1) + 3)

\* what Validator::step of round rr leaves of the validator under test when
\* nothing arrives and the step returns
StepsOf(rr) == {o.v : o \in {x \in ValidatorStep(Val0, rr, <<>>) : x.status = "ok"}}

\* C25: at the end of a step of slot t buffer_proposals holds only proposals
\* of slot >= t, buffer_votes and buffer_blocks only items of slot >= t - 1
\* and limbo only messages of slot >= t - kappa; a proposal that was buffered
\* before the step is there afterwards exactly if its slot is >= t, whether
\* it was selected or not, so a proposal of slot t stays through slot t and
\* goes in the first step of slot t + 1.
C25_StepPrunes ==
    \A rr \in StepRounds : \A W \in StepsOf(rr) :
        LET t == rr \div 4 IN
        /\ \A i \in 1..Len(W.buffer_proposals) :
              W.buffer_proposals[i].b.ticket[2] >= t
        /\ \A k \in DOMAIN W.buffer_votes : W.buffer_votes[k].ticket[2] >= t - 1
        /\ \A k \in DOMAIN W.buffer_blocks : W.buffer_blocks[k].ticket[2] >= t - 1
        /\ \A i \in 1..Len(W.limbo) : MsgSlot(W.limbo[i]) >= t - cfg.kappa
        /\ \A p \in Range(Val0.buffer_proposals) :
              p.b.ticket[2] >= t <=> p \in Range(W.buffer_proposals)

\* C25, the case: a step of some round finds proposals of two slots and a
\* vote in the buffers and a message in limbo; it keeps the later proposal
\* and drops the earlier one, and drops the vote without merging it
C25_Witness ==
    \E rr \in StepRounds : \E W \in StepsOf(rr) :
        /\ W.buffer_proposals # <<>>
        /\ Len(W.buffer_proposals) < Len(Val0.buffer_proposals)
        /\ \E k \in DOMAIN Val0.buffer_votes :
              k \notin DOMAIN W.buffer_votes /\ k \notin DOMAIN W.bvtree.votes
        /\ Val0.limbo # <<>>

\* the mutex thread th is blocked on, or "none"
WaitsFor(th) ==
    IF threads[th].at = "lock"
    THEN LockOrder(threads[th].op)[threads[th].held + 1]
    ELSE "none"

Blocked(th) == WaitsFor(th) # "none" /\ locks[WaitsFor(th)] # NoThread

\* the calls make_available(m) that have been entered with digest d
CallsWith(d) == {c \in offered[0] : c[1] = d}

\* C26: under every interleaving of the callers of one inbox, a digest is
\* pushed on msgs_inflight at most once and the inbox never holds two copies
\* of a message; a make_available that finds its digest in msgs_seen returns
\* with the inbox as it found it.
C26_AppendedOnce ==
    /\ [](\A m \in InboxMsgs :
            /\ MsgDigest(m) \in DOMAIN appended => appended[MsgDigest(m)] <= 1
            /\ CopiesIn(m, Inbox0.msgs_inflight) + CopiesIn(m, Inbox0.msgs) <= 1)
    /\ [][\A th \in InboxThreads :
            (/\ threads[th].op = "make_available"
             /\ threads[th].at = "body"
             /\ MsgDigest(threads[th].msg) \in Inbox0.msgs_seen
             /\ threads'[th] # threads[th])
            => /\ threads'[th].at = "ret"
               /\ inboxes' = inboxes
               /\ appended' = appended]_vars

\* two threads are in make_available with the same message: one has pushed
\* it and holds the locks, the other waits for msgs_seen
C26_Witness ==
    \E th \in InboxThreads, ot \in InboxThreads :
        /\ th # ot
        /\ threads[th].op = "make_available" /\ threads[th].at = "ret"
        /\ threads[th].fresh
        /\ threads[ot].op = "make_available" /\ threads[ot].msg = threads[th].msg
        /\ WaitsFor(ot) = "msgs_seen" /\ Blocked(ot)
        /\ Cardinality(CallsWith(MsgDigest(threads[th].msg))) = 2

\* an order of the four mutexes that every method follows
LockRank(l) ==
    CASE l = "msgs_seen" -> 1
      [] l = "msgs" -> 2
      [] l = "msgs_inflight" -> 3
      [] l = "stats" -> 4

\* C27: the callers of one inbox never deadlock: whenever a call is under
\* way, some thread inside a call can take its next step; every thread waits
\* only for a mutex that comes after all those it holds in one fixed order;
\* and a thread outside every call holds no mutex.
C27_NoDeadlock ==
    /\ (\E th \in InboxThreads : threads[th].at # "idle")
       => \E th \in InboxThreads : threads[th].at # "idle" /\ ~Blocked(th)
    /\ \A th \in InboxThreads : \A l \in LockNames :
          /\ (locks[l] = th /\ WaitsFor(th) # "none")
             => LockRank(l) < LockRank(WaitsFor(th))
          /\ (locks[l] = th) => threads[th].at # "idle"
    /\ \A th \in InboxThreads :
          threads[th].at # "idle"
          => {l \in LockNames : locks[l] = th}
               = {LockOrder(threads[th].op)[k] : k \in 1..threads[th].held}

\* a chain of waiting threads: one waits for a mutex held by a second that
\* itself waits for a mutex held by a third
C27_Witness ==
    \E th \in InboxThreads, ot \in InboxThreads :
        /\ Blocked(th) /\ locks[WaitsFor(th)] = ot
        /\ Blocked(ot) /\ locks[WaitsFor(ot)] \notin {th, ot}

\* the state the limbo loop of step starts from
LimboStart(V, t, arrival) ==
    [limbo |-> LimboIntake(V, t, arrival),
     buffer_blocks |-> V.buffer_blocks,
     buffer_votes |-> V.buffer_votes,
     buffer_proposals |-> V.buffer_proposals,
     msgs_relayed |-> V.msgs_relayed,
     rw |-> EmptyMap, done |-> TRUE, panic |-> FALSE]

\* the length of limbo after each pass of "while !done", in order
RECURSIVE LimboLengths(_, _, _)
LimboLengths(S, V, t) ==
    LET Passed(after) ==
          IF after.panic \/ after.done THEN <<Len(after.limbo)>>
          ELSE <<Len(after.limbo)>> \o LimboLengths(after, V, t)
        Sorted(sorted) == Passed(LimboPass(sorted, V, t, Len(sorted.limbo)))
    IN  Sorted([S EXCEPT !.done = TRUE, !.limbo = SortLimbo(S.limbo)])

\* every pass but the last leaves limbo shorter than it found it
PassesShrink(n, lens) ==
    /\ Len(lens) <= n + 1
    /\ \A i \in 1..(Len(lens) - 1) : lens[i] < (IF i = 1 THEN n ELSE lens[i - 1])

LimboEnds(V, t, arrival) ==
    LET From(S) == PassesShrink(Len(S.limbo), LimboLengths(S, V, t))
    IN  From(LimboStart(V, t, arrival))

\* the honest validators that run Validator::step next in this round
AboutToStep ==
    {j \in HonestIndexes \ stepped :
        /\ pc = "validators" /\ panic = "none"
        /\ cfg.da_schedule[j][r] # "Asleep"
        /\ \/ validators[j].sleep_status = "Awake"
           \/ validators[j].sleep_status = "Dreamy"
                 /\ validators[j].r_end_of_joining = r
           \/ validators[j].sleep_status = "Asleep" /\ EndOfJoining(r) = r}

\* C28: no step of a run fails to return: merge never cycles on a queue of
\* blocks none of which becomes Valid, and in the step a validator is about
\* to take the limbo loop makes at most one pass more than limbo has
\* messages, every pass but the last taking a message out of limbo.
C28_StepTerminates ==
    /\ panic # "hang"
    /\ \A j \in AboutToStep : \A arrival \in Arrivals(inboxes[j].msgs) :
          LimboEnds(Val(j), r \div 4, arrival)

\* a validator that woke up collected a block and its child in one round of
\* phase 3 and merged both from buffer_blocks in that step
C28_Witness ==
    \E j \in DOMAIN validators :
      \E k \in DOMAIN Val(j).bvtree.blocks, c \in DOMAIN Val(j).bvtree.blocks :
        /\ k # GenesisHash /\ Val(j).bvtree.blocks[c].h = k
        /\ \E x \in collected[j], y \in collected[j] :
              /\ x[2] = y[2] /\ x[2] % 4 = 3
              /\ x[1] = MsgDigest(MsgBlock(Val(j).bvtree.blocks[k]))
              /\ y[1] = MsgDigest(MsgBlock(Val(j).bvtree.blocks[c]))
        /\ panic = "none"

\* the opening of the last call verifies
LastVerifies ==
    VrfVerify(0, <<lottery.lot.tag, 1>>, lottery.rho[1], lottery.rho[2])

\* 2^63 as a u64
TwoTo63 == <<32768, 0, 0, 0>>

\* C29: a lottery built from p = 0 is won by no opening, y = 0 included; one
\* built from p = 1 is won by every opening that verifies; one built from
\* p = 0.5 is won by a verifying opening exactly if y <= 2^63.
C29_LotteryThresholds ==
    lottery.called =>
      /\ lottery.p[1] = 0 => ~lottery.won
      /\ (lottery.p[1] = 2 ^ lottery.p[2] /\ LastVerifies) => lottery.won
      /\ (2 * lottery.p[1] = 2 ^ lottery.p[2] /\ LastVerifies)
            => (lottery.won <=> U64Leq(lottery.rho[1], TwoTo63))

\* what the code does: is_winning is y <= thr and the proof verifies, for
\* thr = 0 at p = 0, 2^64 - 1 at p = 1 and 2^63 at p = 0.5; so at p = 0 the
\* verifying opening with y = 0 wins, and no other
C29_WinsUpToThreshold ==
    lottery.called =>
      /\ lottery.won => LastVerifies
      /\ lottery.p[1] = 0 => (lottery.won <=> LastVerifies /\ lottery.rho[1] = U64Zero)
      /\ (lottery.p[1] = 2 ^ lottery.p[2] /\ LastVerifies) => lottery.won
      /\ (2 * lottery.p[1] = 2 ^ lottery.p[2] /\ LastVerifies)
            => (lottery.won <=> U64Leq(lottery.rho[1], TwoTo63))

\* p = 0.5: verifying openings with y = 2^63 (won) and y = 2^63 + 1 (lost)
C29_HalfBoundary ==
    /\ lottery.called /\ 2 * lottery.p[1] = 2 ^ lottery.p[2] /\ LastVerifies
    /\ lottery.rho[1] = <<32768, 0, 0, 1>> /\ ~lottery.won

\* isize::MIN, at the width of the integers of the model: the least value,
\* below every slot, and t + 1 does not overflow
IsizeMin == -2147483647 - 1

\* C30: on every tree, one that holds votes included, expire_votes_before
\* of the least isize returns (no assert! fails) and leaves votes,
\* votecount, blocks, children and tips as they were.
C30_ExpireMinNoOp ==
    /\ ~ExpireVotesPanics(Val0.bvtree, IsizeMin)
    /\ ExpireVotesBefore(Val0.bvtree, IsizeMin) = Val0.bvtree

\* what the code does: the retains keep everything, and the assert! that no
\* kept vote is of a slot above t + 1 fails as soon as the tree holds a vote
C30_ExpireMinPanicsOnVotes ==
    /\ ExpireVotesBefore(Val0.bvtree, IsizeMin) = Val0.bvtree
    /\ ExpireVotesPanics(Val0.bvtree, IsizeMin)
          <=> \/ Val0.bvtree.votes # EmptyMap
              \/ \E k \in DOMAIN Val0.bvtree.votecount :
                    Val0.bvtree.votecount[k] # {}

\* a tree that holds a vote, counted for its target
C30_TreeWithVotes ==
    /\ panic = "none"
    /\ \E k \in DOMAIN Val0.bvtree.votes :
          Val0.bvtree.votes[k].ticket \in Val0.bvtree.votecount[Val0.bvtree.votes[k].h]

\* h and its ancestors in the tree T, genesis included
AncestorsOrSelf(T, h) == TipAncestry(TreeView(T), h) \cup {GenesisHash}

\* the slots t handed to truncate_back_to_slot: below 0, and every slot
TruncateSlots == -1..(MaxHorizon + 1)

\* C31: on every block h of the tree and every t, truncate_back_to_slot
\* returns an ancestor-or-self x of h that is genesis or of a slot <= t, and
\* every block of the chain from h down to x, x excluded, is of a slot > t;
\* so it returns h when t >= slot(h), and genesis when t < 0.
C31_TruncateNearest ==
    \A h \in DOMAIN Val0.bvtree.blocks : \A t \in TruncateSlots :
      LET Is(x) ==
            /\ x \in AncestorsOrSelf(Val0.bvtree, h)
            /\ x = GenesisHash \/ Val0.bvtree.blocks[x].ticket[2] <= t
            /\ \A a \in AncestorsOrSelf(Val0.bvtree, h) :
                  (a # x /\ x \in AncestorsOrSelf(Val0.bvtree, a))
                  => Val0.bvtree.blocks[a].ticket[2] > t
            /\ t >= Val0.bvtree.blocks[h].ticket[2] => x = h
            /\ t < 0 => x = GenesisHash
      IN  Is(TruncateBackToSlot(Val0.bvtree, h, t))

\* a chain of two blocks above genesis: truncation from the upper one
\* returns the lower one for one t, and genesis for a smaller t
C31_Witness ==
    \E h \in DOMAIN Val0.bvtree.blocks : \E t \in TruncateSlots :
      /\ TruncateBackToSlot(Val0.bvtree, h, t) \notin {h, GenesisHash}
      /\ TruncateBackToSlot(Val0.bvtree, h, t - 1) = GenesisHash
      /\ Val0.bvtree.blocks[Val0.bvtree.blocks[h].h].h = GenesisHash

\* the slots of the steps whose limbo loop is examined: the slot the
\* messages were handed in at, and the one before (messages of a later slot)
LimboSlots == {OfferSlot - 1, OfferSlot}

\* the verdict of msg when the limbo loop has ended in S: as the loop
\* validates, read-only through the caches, against the tree and the buffers
FinalVerdict(msg, S, V) ==
    MsgIsValid(msg, RoValidationCache(UnionValidationCache(V.validation_cache, S.rw)),
               BufferAugmentedBvTree(V.bvtree, S.buffer_blocks, S.buffer_votes)).res

\* msg is in the buffer of its type
InTypedBuffer(msg, S) ==
    CASE msg.kind = "Proposal" -> msg.x \in Range(S.buffer_proposals)
      [] msg.kind = "Vote" ->
            VoteDigest(msg.x) \in DOMAIN S.buffer_votes
            /\ S.buffer_votes[VoteDigest(msg.x)] = msg.x
      [] OTHER ->
            BlockDigest(msg.x) \in DOMAIN S.buffer_blocks
            /\ S.buffer_blocks[BlockDigest(msg.x)] = msg.x

\* the limbo loop of a step of slot t that started from S0 and ended in S
AtFixpoint(S0, S, V, t) ==
    S.panic \/
    /\ \A msg \in Range(S.limbo) :
          MsgSlot(msg) > t \/ FinalVerdict(msg, S, V) = "Unknown"
    /\ \A msg \in Range(S0.limbo) :
          MsgSlot(msg) <= t =>
            /\ FinalVerdict(msg, S, V) = "Valid" =>
                  /\ InTypedBuffer(msg, S)
                  /\ MsgDigest(msg) \in S.msgs_relayed
                  /\ msg \notin Range(S.limbo)
            /\ FinalVerdict(msg, S, V) = "Invalid" =>
                  /\ msg \notin Range(S.limbo)
                  /\ ~InTypedBuffer(msg, S)
                  /\ MsgDigest(msg) \notin S.msgs_relayed
            /\ FinalVerdict(msg, S, V) = "Unknown" => msg \in Range(S.limbo)

\* C32: when the limbo loop of a step of slot t has ended, every message
\* left in limbo is of a slot > t or validates as Unknown against the tree
\* and the buffers as they are then; every message taken in of a slot <= t
\* that validates as Valid is in the buffer of its type and its digest in
\* msgs_relayed; and every one that validates as Invalid is in neither.
C32_LimboFixpoint ==
    \A t \in LimboSlots : \A m \in OfferedMsgs :
      LET Ended(S0) == AtFixpoint(S0, LimboLoop(S0, Val0, t), Val0, t)
      IN  Ended(LimboStart(Val0, t, <<m>>))

\* a loop that leaves all three verdicts behind: a vote that waited in limbo
\* is routed to buffer_votes, a message of a slot <= t stays in limbo as
\* Unknown, and a message taken in is dropped as Invalid
C32_Witness ==
    \E t \in LimboSlots : \E m \in OfferedMsgs :
      LET Ended(S0, S) ==
            /\ ~S.panic
            /\ \E x \in Range(Val0.limbo) :
                  x.kind = "Vote" /\ InTypedBuffer(x, S) /\ x \notin Range(S.limbo)
            /\ \E y \in Range(S.limbo) : MsgSlot(y) <= t
            /\ \E z \in Range(S0.limbo) :
                  MsgSlot(z) <= t /\ FinalVerdict(z, S, Val0) = "Invalid"
          Started(S0) == Ended(S0, LimboLoop(S0, Val0, t))
      IN  Started(LimboStart(Val0, t, <<m>>))

\* the validator after limbo intake and the limbo loop has the tree and the
\* authoritative cache it started with
LimboLeavesAuthoritative(V, t, arrival) ==
    LET After(lp) ==
          lp.v.bvtree = V.bvtree /\ lp.v.validation_cache = V.validation_cache
    IN  After(LimboProcess(V, t, arrival))

\* C33: limbo processing changes neither the BV-tree nor validation_cache;
\* a step of phase 0 leaves both as they were; and over any step the
\* authoritative cache only gains verdicts, each for a block or a vote that
\* is in the tree after the step (a merge validated it) or for the vote the
\* validator cast in the step (the self-check validated it), so the verdicts
\* of the scratch map for anything else are gone.
C33_LimboSpeculative ==
    /\ [](\A j \in AboutToStep : \A arrival \in Arrivals(inboxes[j].msgs) :
            LimboLeavesAuthoritative(Val(j), r \div 4, arrival))
    /\ [][\A j \in HonestIndexes :
            (StepOf(j) /\ panic' = "none") =>
              /\ r % 4 = 0 =>
                    /\ Val(j)'.validation_cache = Val(j).validation_cache
                    /\ Val(j)'.bvtree = Val(j).bvtree
              /\ \A d \in DOMAIN Val(j).validation_cache :
                    /\ d \in DOMAIN Val(j)'.validation_cache
                    /\ Val(j)'.validation_cache[d] = Val(j).validation_cache[d]
              /\ \A d \in DOMAIN Val(j)'.validation_cache :
                    d \notin DOMAIN Val(j).validation_cache =>
                      \/ d \in DOMAIN Val(j)'.bvtree.blocks
                      \/ d \in DOMAIN Val(j)'.bvtree.votes
                      \/ <<<<"message", "piece", d>>, r>> \in offered'[j]]_vars

\* after a step of phase 1 that took in two proposals and merged one, the
\* block of the merged one has its verdict in the authoritative cache and
\* the block of the other, validated in limbo only, has none
C33_Witness ==
    \E j \in DOMAIN validators :
      /\ RanStep(j) /\ r % 4 = 1 /\ panic = "none"
      /\ \E p \in Range(Val(j).buffer_proposals), q \in Range(Val(j).buffer_proposals) :
            /\ p.b.ticket[2] = r \div 4 /\ q.b.ticket[2] = r \div 4
            /\ BlockDigest(p.b) \in DOMAIN Val(j).validation_cache
            /\ BlockDigest(p.b) \in DOMAIN Val(j).bvtree.blocks
            /\ BlockDigest(q.b) \notin DOMAIN Val(j).validation_cache

\* every block of the view has its parent in the view, validates as Valid
\* from an empty cache (the whole chain down to genesis is validated), and
\* has no other verdict in the cache c
ViewSound(view, c) ==
    \A k \in DOMAIN view.blocks :
      /\ k = GenesisHash \/ view.blocks[k].h \in DOMAIN view.blocks
      /\ BlockIsValid(view.blocks[k], HashMapCache(EmptyMap), view).res = "Valid"
      /\ k \in DOMAIN c => c[k] = "Valid"

\* the view and the cache of limbo when its loop has ended in S
LimboEndSound(S, V) ==
    S.panic \/ ViewSound(BufferAugmentedBvTree(V.bvtree, S.buffer_blocks,
                                               S.buffer_votes),
                         S.rw @@ V.validation_cache)

\* C34: no assert! fails in a run, and in every view a validator validates
\* against (its tree with its buffers between steps, which is after the
\* cleanup of the step before, and the tree with the buffers as limbo fills
\* them in the step it is about to take) every block has its parent, so that
\* the validation of a parent or target found in the view returns Valid.
C34_ParentsValid ==
    /\ panic # "panic"
    /\ \A j \in DOMAIN validators :
          ViewSound(BufferAugmentedBvTree(Val(j).bvtree, Val(j).buffer_blocks,
                                          Val(j).buffer_votes),
                    Val(j).validation_cache)
    /\ \A j \in AboutToStep : \A arrival \in Arrivals(inboxes[j].msgs) :
          LET Ended(S0) == LimboEndSound(LimboLoop(S0, Val(j), r \div 4), Val(j))
          IN  Ended(LimboStart(Val(j), r \div 4, arrival))

\* a validator that wakes up is about to take in a block and its child: the
\* limbo loop puts both into buffer_blocks, the parent of one being the other
C34_Witness ==
    \E j \in AboutToStep : \E arrival \in Arrivals(inboxes[j].msgs) :
      LET Ended(S) ==
            /\ ~S.panic
            /\ \E k \in DOMAIN S.buffer_blocks :
                  /\ S.buffer_blocks[k].h \in DOMAIN S.buffer_blocks
                  /\ S.buffer_blocks[k].h \notin DOMAIN Val(j).bvtree.blocks
          Started(S0) == Ended(LimboLoop(S0, Val(j), r \div 4))
      IN  Started(LimboStart(Val(j), r \div 4, arrival))

\* the calls of merge in the step of phase rr % 4 of the validator W (limbo
\* done): the cache, the buffered votes and the proposal they are made with
StepMerges(W, rr) ==
    LET t == rr \div 4
        ps == SelectSeq(W.buffer_proposals, LAMBDA p : p.b.ticket[2] = t)
        recent == {k \in DOMAIN W.buffer_votes : W.buffer_votes[k].ticket[2] >= t}
    IN  CASE rr % 4 = 0 ->
               IF LotteryIsWinning("block", W.id, t, LotteryOpen("block", W.id, t))
               THEN {[c |-> RoValidationCache(HashMapCache(W.validation_cache)),
                      bv |-> W.buffer_votes, proposal |-> NoProposal]}
               ELSE {}
          [] rr % 4 = 1 ->
               IF ps = <<>> THEN {}
               ELSE {[c |-> HashMapCache(W.validation_cache),
                      bv |-> W.buffer_votes,
                      proposal |-> SomeProposal(MinPrioProposal(ps))]}
          [] OTHER ->
               {[c |-> HashMapCache(W.validation_cache),
                 bv |-> Restrict(W.buffer_votes, recent), proposal |-> NoProposal]}

\* the blocks merge(T, bb, bv, proposal) tries to merge and the votes it drains
MergeQueue(T, bb, bv, proposal) ==
    IF proposal = NoProposal THEN DOMAIN bb
    ELSE UNION {TipAncestry(BufferAugmentedBvTree(T, bb, bv), h)
                  : h \in proposal[1].tips}

MergeDrained(bv, proposal) ==
    IF proposal = NoProposal THEN DOMAIN bv ELSE DOMAIN bv \cap proposal[1].votes

\* the three assertions of merge hold in the call with these arguments: the
\* call returns, every buffered block it tried is in the tree and Valid there,
\* the proposal's block is Valid on the inserted ancestry, every drained vote
\* is Valid against the tree alone and is counted
MergeAssertionsHold(T, c, bb, bv, proposal) ==
    LET fresh == HashMapCache(EmptyMap)
        After(m) ==
          /\ MergeStatus(m) = "ok"
          /\ \A k \in MergeQueue(T, bb, bv, proposal) \cap DOMAIN bb :
                /\ k \in DOMAIN m.tree.blocks
                /\ BlockIsValid(bb[k], fresh, TreeView(m.tree)).res = "Valid"
          /\ proposal # NoProposal =>
                /\ BlockDigest(proposal[1].b) \in DOMAIN m.tree.blocks
                /\ BlockIsValid(proposal[1].b, fresh, TreeView(m.tree)).res = "Valid"
          /\ \A k \in MergeDrained(bv, proposal) :
                /\ k \in DOMAIN m.tree.votes
                /\ VoteIsValid(bv[k], fresh, TreeView(m.tree)).res = "Valid"
    IN  After(Merge(T, c, bb, bv, proposal))

\* C35: in every merge a validator makes in a run (phase 0 on the clone, phase
\* 1 with the selected proposal, phases 2 and 3 with none), for every order of
\* arrival of its inbox, the assertions of merge hold.
C35_MergeAssertions ==
    \A j \in AboutToStep : \A arrival \in Arrivals(inboxes[j].msgs) :
      LET Limbo(lp) ==
            ~lp.panic /\
            \A g \in StepMerges(lp.v, r) :
               MergeAssertionsHold(lp.v.bvtree, g.c, lp.v.buffer_blocks, g.bv,
                                   g.proposal)
      IN  Limbo(LimboProcess(Val(j), r \div 4, arrival))

\* a validator is about to merge its buffers, which hold a block that is not
\* in its tree and a vote of the slot
C35_Witness ==
    \E j \in AboutToStep : \E arrival \in Arrivals(inboxes[j].msgs) :
      LET Limbo(lp) ==
            \E g \in StepMerges(lp.v, r) :
              /\ g.proposal = NoProposal
              /\ DOMAIN lp.v.buffer_blocks \ DOMAIN lp.v.bvtree.blocks # {}
              /\ g.bv # EmptyMap
      IN  Limbo(LimboProcess(Val(j), r \div 4, arrival))

\* what merge(Some(p)) leaves, for a proposal p that is Valid against the
\* tree T with the buffers bb and bv
MergeAbsorbs(T, c, bb, bv, p) ==
    LET queue == MergeQueue(T, bb, bv, SomeProposal(p))
        After(m) ==
          /\ MergeStatus(m) = "ok"
          /\ BlockDigest(p.b) \in DOMAIN m.tree.blocks
          /\ \A h \in p.tips :
                AncestorsOrSelf(m.tree, h) \subseteq DOMAIN m.tree.blocks
          /\ \A k \in p.votes \cap DOMAIN bv : k \in DOMAIN m.tree.votes
          /\ \A k \in DOMAIN bb \ (queue \cup {BlockDigest(p.b)}) :
                /\ k \in DOMAIN m.buffer_blocks
                /\ k \in DOMAIN m.tree.blocks <=> k \in DOMAIN T.blocks
          /\ \A k \in DOMAIN bv \ p.votes :
                /\ k \in DOMAIN m.buffer_votes
                /\ k \in DOMAIN m.tree.votes <=> k \in DOMAIN T.votes
    IN  After(Merge(T, c, bb, bv, SomeProposal(p)))

\* the proposals handed in that are Valid against the view of the validator
ValidProposals(V) ==
    {p \in OfferedProposals :
       ProposalIsValid(p, RoValidationCache(HashMapCache(V.validation_cache)),
                       BufferAugmentedBvTree(V.bvtree, V.buffer_blocks,
                                             V.buffer_votes)).res = "Valid"}

\* C36: after merge with a Valid proposal p the tree holds p's block, every
\* tip of p with its ancestors and every vote p references that was buffered;
\* the other buffered blocks and votes stay in the buffers, and are in the
\* tree only if they were before.
C36_MergeAbsorbsProposal ==
    panic = "none" =>
      \A p \in ValidProposals(Val0) :
         MergeAbsorbs(Val0.bvtree, HashMapCache(Val0.validation_cache),
                      Val0.buffer_blocks, Val0.buffer_votes, p)

\* a Valid proposal whose tip and referenced vote are buffered, beside a
\* buffered block and a buffered vote it does not name
C36_Witness ==
    /\ panic = "none"
    /\ \E p \in ValidProposals(Val0) :
          /\ p.tips \cap DOMAIN Val0.buffer_blocks # {}
          /\ p.tips \cap DOMAIN Val0.bvtree.blocks = {}
          /\ p.votes \cap DOMAIN Val0.buffer_votes # {}
          /\ DOMAIN Val0.buffer_votes \ p.votes # {}
          /\ DOMAIN Val0.buffer_blocks
                \ (MergeQueue(Val0.bvtree, Val0.buffer_blocks, Val0.buffer_votes,
                              SomeProposal(p)) \cup {BlockDigest(p.b)}) # {}

\* after merge(None) on the buffers of V both buffers are empty
MergeNoneEmpties(V) ==
    LET After(m) ==
          MergeStatus(m) = "ok" =>
             m.buffer_blocks = EmptyMap /\ m.buffer_votes = EmptyMap
    IN  After(Merge(V.bvtree, HashMapCache(V.validation_cache),
                    V.buffer_blocks, V.buffer_votes, NoProposal))

\* after merge(Some(p)) on the buffers of V the ancestry of p's tips and the
\* votes p references are in neither buffer
MergeSomeRemoves(V, p) ==
    LET After(m) ==
          MergeStatus(m) = "ok" =>
             /\ DOMAIN m.buffer_blocks
                  \cap MergeQueue(V.bvtree, V.buffer_blocks, V.buffer_votes,
                                  SomeProposal(p)) = {}
             /\ DOMAIN m.buffer_votes \cap p.votes = {}
    IN  After(Merge(V.bvtree, HashMapCache(V.validation_cache),
                    V.buffer_blocks, V.buffer_votes, SomeProposal(p)))

\* the proposals of slot t in buffer_proposals, from which phase 1 selects
ProposalsOfSlot(V, t) == SelectSeq(V.buffer_proposals, LAMBDA p : p.b.ticket[2] = t)

\* the proposal phase 1 of slot t merges is in buffer_proposals / is not,
\* after the merge and after the cleanup of that step
SelectedStays(V, t, stays) ==
    LET After(p, mo) ==
          mo.status = "ok" =>
             /\ (p \in Range(mo.v.buffer_proposals)) = stays
             /\ (p \in Range(Cleanup(mo.v, t).buffer_proposals)) = stays
    IN  ProposalsOfSlot(V, t) # <<>> =>
           After(MinPrioProposal(ProposalsOfSlot(V, t)), PhaseVoteMerge(V, t))

\* C37 (as the code has it): a block or vote is removed from its buffer when
\* it is merged: merge(None) leaves both buffers empty, merge(Some(p)) leaves
\* neither the merged ancestry nor the referenced votes buffered; p itself
\* stays in buffer_proposals through the merge and the cleanup of the step.
C37_MergedLeaveBuffers ==
    panic = "none" =>
      /\ MergeNoneEmpties(Val0)
      /\ \A p \in ValidProposals(Val0) : MergeSomeRemoves(Val0, p)
      /\ \A t \in TreeSlots : SelectedStays(Val0, t, TRUE)

\* C37 (as stated): the same, with p no longer in buffer_proposals after the
\* merge.
C37_ProposalLeavesBuffer ==
    panic = "none" =>
      /\ MergeNoneEmpties(Val0)
      /\ \A p \in ValidProposals(Val0) : MergeSomeRemoves(Val0, p)
      /\ \A t \in TreeSlots : SelectedStays(Val0, t, FALSE)

\* phase 1 is about to merge a buffered proposal whose tip and referenced
\* vote are buffered
C37_Witness ==
    /\ panic = "none"
    /\ \E t \in TreeSlots :
          /\ ProposalsOfSlot(Val0, t) # <<>>
          /\ PhaseVoteMerge(Val0, t).status = "ok"
          /\ LET Selected(p) ==
                   /\ p.tips \cap DOMAIN Val0.buffer_blocks # {}
                   /\ p.votes \cap DOMAIN Val0.buffer_votes # {}
             IN  Selected(MinPrioProposal(ProposalsOfSlot(Val0, t)))

\* the self-check of phase 0 of slot t on the validator W (limbo done): the
\* proposal built on the cloned, merged and expired tree is Valid against it
ProposeSelfCheck(W, t) ==
    LET rho == LotteryOpen("block", W.id, t)
        ro == RoValidationCache(HashMapCache(W.validation_cache))
        Built(T) ==
          /\ \A h \in T.tips : T.blocks[h].ticket[2] < t
          /\ \A k \in DOMAIN T.votes : T.votes[k].ticket[2] = t - 1
          /\ \A h_tip \in GhostEph(T, t - 1, 0) :
                ProposalIsValid([tips |-> T.tips, votes |-> DOMAIN T.votes,
                                 b |-> BlockCreate(W.id, t, rho, h_tip),
                                 sigma |-> Sign(W.id)],
                                ro, TreeView(T)).res = "Valid"
        Merged(m) ==
          /\ MergeStatus(m) = "ok"
          /\ ~ExpireVotesPanics(m.tree, t - 1)
          /\ Built(ExpireVotesBefore(m.tree, t - 1))
    IN  LotteryIsWinning("block", W.id, t, rho) =>
          Merged(Merge(W.bvtree, ro, W.buffer_blocks, W.buffer_votes, NoProposal))

\* the self-check of phase 1 of slot t: the vote built for the GHOST tip of
\* the real tree, merged and expired, is Valid against it
VoteSelfCheck(W, t) ==
    LET rho == LotteryOpen("vote", W.id, t)
        Built(X, T) ==
          \A h_tip \in GhostEph(T, t - 1, 0) :
            /\ T.blocks[h_tip].ticket[2] <= t
            /\ VoteIsValid(VoteCreate(W.id, t, rho, h_tip),
                           HashMapCache(X.validation_cache), TreeView(T)).res = "Valid"
        Merged(mo) ==
          /\ mo.status = "ok"
          /\ ~ExpireVotesPanics(mo.v.bvtree, t - 1)
          /\ Built(mo.v, ExpireVotesBefore(mo.v.bvtree, t - 1))
    IN  LotteryIsWinning("vote", W.id, t, rho) => Merged(PhaseVoteMerge(W, t))

\* C38: for every validator about to step and every order of arrival of its
\* inbox, the proposal it builds in phase 0 is Valid against its cloned and
\* merged tree (tips of slot < t, votes of slot t - 1) and the vote it builds
\* in phase 1 is Valid against its tree (for a tip of slot <= t).
C38_SelfChecksHold ==
    \A j \in AboutToStep : \A arrival \in Arrivals(inboxes[j].msgs) :
      LET Limbo(lp) ==
            /\ ~lp.panic
            /\ r % 4 = 0 => ProposeSelfCheck(lp.v, r \div 4)
            /\ r % 4 = 1 => VoteSelfCheck(lp.v, r \div 4)
      IN  Limbo(LimboProcess(Val(j), r \div 4, arrival))

\* a validator that won the vote lottery is about to vote, in phase 1 of slot
\* t, for a block of slot t: the block of the proposal it merges
C38_Witness ==
    /\ panic = "none"
    /\ \E j \in AboutToStep : \E arrival \in Arrivals(inboxes[j].msgs) :
         LET t == r \div 4
             Built(T) ==
               \E h_tip \in GhostEph(T, t - 1, 0) : T.blocks[h_tip].ticket[2] = t
             Merged(mo) == Built(ExpireVotesBefore(mo.v.bvtree, t - 1))
             Limbo(lp) ==
               /\ r % 4 = 1
               /\ LotteryIsWinning("vote", lp.v.id, t, LotteryOpen("vote", lp.v.id, t))
               /\ Merged(PhaseVoteMerge(lp.v, t))
         IN  Limbo(LimboProcess(Val(j), t, arrival))

\* the digests of the messages ever broadcast (every broadcast reaches every
\* inbox, inbox 0 among them)
Broadcasts(history) == {x[1] : x \in history[0]}

\* a broadcast digest is <<"message", "piece", d>> or <<"message", d>>
KindOf(d) == IF Len(d) = 3 THEN d[3][1] ELSE "proposal"

\* the digest of the block of a block piece or of a proposal
BlockPart(d) == IF Len(d) = 3 THEN d[3] ELSE d[2][4]

\* the ticket (id, t) of a broadcast message
TicketOf(d) == BlockPart(d)[2]

\* one vote, one proposal and one block for every ticket, none of a corrupted
\* validator
NoEquivocation ==
    \A d \in Broadcasts(offered) :
      /\ TicketOf(d)[1] >= cfg.f
      /\ \A e \in Broadcasts(offered) :
            /\ KindOf(d) = KindOf(e) /\ TicketOf(d) = TicketOf(e) => d = e
            /\ KindOf(d) # "vote" /\ KindOf(e) # "vote" /\ TicketOf(d) = TicketOf(e)
                  => BlockPart(d) = BlockPart(e)

\* in every BV-tree every ticket of a votecount set is the ticket of exactly
\* one vote of the tree
TicketsStandForVotes ==
    \A j \in DOMAIN validators :
      \A k \in DOMAIN Val(j).bvtree.votecount : \A tk \in Val(j).bvtree.votecount[k] :
        Cardinality({x \in DOMAIN Val(j).bvtree.votes :
                        Val(j).bvtree.votes[x].ticket = tk}) = 1

\* a proposal or vote is broadcast for the first time by its author, in its
\* slot and phase, while the author is scheduled awake and Awake
BroadcastAwake ==
    \A d \in Broadcasts(offered') \ Broadcasts(offered) :
      KindOf(d) # "block" =>
        LET j == TicketOf(d)[1] - cfg.f IN
        /\ j \in DOMAIN validators
        /\ validators'[j] # validators[j]
        /\ cfg.da_schedule[j][r] # "Asleep"
        /\ validators'[j].sleep_status = "Awake"
        /\ TicketOf(d)[2] = r \div 4
        /\ r % 4 = (IF KindOf(d) = "proposal" THEN 0 ELSE 1)

\* C39: no honest validator equivocates: over a run at most one proposal, one
\* block and one vote is broadcast for each ticket (id, t), none of a crashed
\* validator and none by a validator that is Asleep or Dreamy; each ticket of
\* a votecount set stands for exactly one vote.
C39_NoEquivocation ==
    [](NoEquivocation /\ TicketsStandForVotes) /\ [][BroadcastAwake]_vars

\* a validator that slept has broadcast a proposal and a vote of one slot,
\* and its vote is counted in a tree
C39_Witness ==
    \E d \in Broadcasts(offered), e \in Broadcasts(offered) :
      /\ KindOf(d) = "proposal" /\ KindOf(e) = "vote"
      /\ TicketOf(d) = TicketOf(e)
      /\ \E rr \in DOMAIN cfg.da_schedule[TicketOf(d)[1] - cfg.f] :
            cfg.da_schedule[TicketOf(d)[1] - cfg.f][rr] = "Asleep"
      /\ \E j \in DOMAIN validators :
            TicketOf(e) \in Val(j).bvtree.votecount[GenesisHash]

\* x, a block of the tree of validator i, and y, a block of the tree of
\* validator j, lie on one chain
OnOneChain(i, j, x, y) ==
    \/ x \in AncestorsOrSelf(Val(j).bvtree, y)
    \/ y \in AncestorsOrSelf(Val(i).bvtree, x)

\* the confirmed tips of the validator at index j
ConfirmedTips(j) == {Val(j).tip_fast, Val(j).tip_slow}

\* C40: at the end of every round the confirmed tips (fast and slow) of any
\* two honest validators lie on one chain.
C40_LedgerConsistency ==
    (panic = "none" /\ EndOfRound(r)) =>
       \A i, j \in DOMAIN validators :
          \A x \in ConfirmedTips(i), y \in ConfirmedTips(j) : OnOneChain(i, j, x, y)

\* no two honest validators have the same prio in a slot
BlockPriosDiffer ==
    \A t \in 1..cfg.t_horizon : \A a, b \in cfg.f..(cfg.n - 1) :
       a # b => cfg.vrf[<<"block", a, t>>] # cfg.vrf[<<"block", b, t>>]

\* C40, where it holds: in the runs in which the prios of every slot differ
C40_DistinctPrio == BlockPriosDiffer => C40_LedgerConsistency

\* two validators have confirmed a block other than genesis, after a slot in
\* which both proposed with different prios
C40_ConfirmedBlocks ==
    /\ BlockPriosDiffer /\ panic = "none" /\ EndOfRound(r)
    /\ \E i, j \in DOMAIN validators :
          /\ i # j
          /\ Val(i).tip_slow # GenesisHash /\ Val(j).tip_fast # GenesisHash
          /\ Val(i).tip_slow # Val(j).tip_fast

=============================================================================
